---- MODULE Spec2Model ----
(***************************************************************************)
(* The versioned inventory ledger of consensuscraft (src/database):        *)
(* DB.Put / Get / Delete / GetPlayerInventories / StreamAll / Close, the   *)
(* bounded change log and the origin cascade cleaner used by Delete.       *)
(*                                                                         *)
(* Abstractions, each stated where it is used:                             *)
(*  - JSON text is modelled by its content: an inventory is either bytes   *)
(*    that are not a JSON array ("raw") or a list of slots; a slot is      *)
(*    null or an item object; a lore line is an origin line (with or       *)
(*    without the trailing timestamp the cleaner's pattern asks for) or    *)
(*    free text.                                                           *)
(*  - time.Now() is a counter `now` that never goes back; two readings may *)
(*    be equal (coarse clock).                                             *)
(*  - the change-log bound (1000) and the channel capacity (100) are       *)
(*    scaled down to LogCap and ChanCap.                                   *)
(***************************************************************************)
EXTENDS Integers, Sequences, FiniteSets, TLC

Players == {"p1", "p2"}
Servers == {"s1", "s2"}

\* leveldb iterates keys in byte order.
KeyOrder == <<"p1", "p2">>

\* ---- bounds of the model ----
MaxTime == 3
MaxPuts == 3
MaxDeletes == 1
\* Puts beside a running stream
MaxStreamPuts == 1
\* Put calls made by the threads of SpecThreads.
MaxThreadPuts == 3
\* Fields set before the validator is called, and enchantments on an item.
MaxEdits == 2
MaxEnchants == 3
\* Slots of an inventory handed to ValidateInventory.
MaxSlots == 3
\* Lines of lore on an item handed to AddOriginToItem.
MaxLore == 3

\* ---- program constants (scaled) ----
\* database.go:300 and :452 keep the last 1000 change-log entries.
LogCap == 2
\* database.go:547 makes the stream channel with capacity 100.
ChanCap == 1

\* -------------------------------------------------------------------------
\* Item model (database.go:50-60) and JSON values
\* -------------------------------------------------------------------------
Null == [kind |-> "null"]

\* "Origin: <server>"
OriginLine(s) == [kind |-> "origin", server |-> s, stamp |-> FALSE]
\* "Origin: <server> 2024-01-01T10:00:00"
StampedOriginLine(s) == [kind |-> "origin", server |-> s, stamp |-> TRUE]
TextLine == [kind |-> "text", server |-> "", stamp |-> FALSE]

\* An item object. extra: the object carries keys Item does not know.
Item(t, lore, contents, extra) ==
    [kind |-> "item", typeId |-> t, lore |-> lore, shulker |-> contents, extra |-> extra]

RawBytes(id) == [kind |-> "raw", id |-> id, slots |-> <<>>]
JsonInv(slots) == [kind |-> "json", id |-> "", slots |-> slots]

NoMatch == ""

\* The pattern of hasOriginFromServer:
\*   ^Origin:\s*(.+?)\s+\d{4}-\d{2}-\d{2}T\d{2}:\d{2}:\d{2}
\* matches only an origin line followed by a timestamp; the capture is the server.
OriginPatternMatch(line) ==
    IF line.kind = "origin" /\ line.stamp THEN line.server ELSE NoMatch

hasOriginFromServer(item, server) ==
    /\ Len(item.lore) > 0
    /\ \E i \in 1..Len(item.lore) :
          /\ OriginPatternMatch(item.lore[i]) # NoMatch
          /\ OriginPatternMatch(item.lore[i]) = server

\* json.Marshal of an Item VALUE held in an interface: MarshalJSON has a
\* pointer receiver and the value is not addressable, so the default struct
\* encoding is used and Extra (json:"-") is not written.
EncodeItemValue(item) == [item EXCEPT !.extra = FALSE]

\* Item.UnmarshalJSON: the known keys go to their fields and whatever is left
\* of the object goes to Extra.
UnmarshalJSON(object) ==
    [TypeID |-> object.typeId, Lore |-> object.lore,
     ShulkerContents |-> object.shulker, Extra |-> object.extra]

\* Item.MarshalJSON (pointer receiver): the keys of Extra first, then the
\* known fields that are not zero.
MarshalJSON(i) ==
    [kind |-> "item", typeId |-> i.TypeID, lore |-> i.Lore,
     shulker |-> i.ShulkerContents, extra |-> i.Extra]

RECURSIVE cleanShulkerContents(_, _)
RECURSIVE CleanShulkerLoop(_, _)

\* The loop of cleanShulkerContents (database.go:182-214) over the contents:
\* a removed item is left out of the cleaned list.
CleanShulkerLoop(contents, server) ==
    IF contents = <<>> THEN [cleaned |-> <<>>, modified |-> FALSE]
    ELSE LET content == Head(contents)
             rest == CleanShulkerLoop(Tail(contents), server)
         IN  IF content.kind # "item"
             THEN [cleaned |-> <<content>> \o rest.cleaned, modified |-> rest.modified]
             ELSE IF hasOriginFromServer(content, server)
             THEN [cleaned |-> rest.cleaned, modified |-> TRUE]
             ELSE LET sub == cleanShulkerContents(content, server)
                  IN  [cleaned |-> <<EncodeItemValue(sub.item)>> \o rest.cleaned,
                       modified |-> sub.modified \/ rest.modified]

cleanShulkerContents(item, server) ==
    IF Len(item.shulker) = 0 THEN [item |-> item, modified |-> FALSE]
    ELSE LET r == CleanShulkerLoop(item.shulker, server)
         IN  IF r.modified
             THEN [item |-> [item EXCEPT !.shulker = r.cleaned], modified |-> TRUE]
             ELSE [item |-> item, modified |-> FALSE]

RECURSIVE CleanInventoryLoop_dropsSlot(_, _)
\* Mutant: a removed top-level item is left out of the list, as in a container.
CleanInventoryLoop_dropsSlot(slots, server) ==
    IF slots = <<>> THEN [cleaned |-> <<>>, modified |-> FALSE]
    ELSE LET slot == Head(slots)
             rest == CleanInventoryLoop_dropsSlot(Tail(slots), server)
         IN  IF slot.kind # "item"
             THEN [cleaned |-> <<slot>> \o rest.cleaned, modified |-> rest.modified]
             ELSE IF hasOriginFromServer(slot, server)
             THEN [cleaned |-> rest.cleaned, modified |-> TRUE]
             ELSE LET sub == cleanShulkerContents(slot, server)
                  IN  [cleaned |-> <<EncodeItemValue(sub.item)>> \o rest.cleaned,
                       modified |-> sub.modified \/ rest.modified]

RECURSIVE CleanInventoryLoop(_, _)
\* The loop of cleanInventoryContents (database.go:471-504): a removed
\* top-level item is replaced by null.
CleanInventoryLoop(slots, server) ==
    IF slots = <<>> THEN [cleaned |-> <<>>, modified |-> FALSE]
    ELSE LET slot == Head(slots)
             rest == CleanInventoryLoop(Tail(slots), server)
         IN  IF slot.kind # "item"
             THEN [cleaned |-> <<slot>> \o rest.cleaned, modified |-> rest.modified]
             ELSE IF hasOriginFromServer(slot, server)
             THEN [cleaned |-> <<Null>> \o rest.cleaned, modified |-> TRUE]
             ELSE LET sub == cleanShulkerContents(slot, server)
                  IN  [cleaned |-> <<EncodeItemValue(sub.item)>> \o rest.cleaned,
                       modified |-> sub.modified \/ rest.modified]

\* Mutant: the list is encoded again whether or not an item was removed.
cleanInventoryContents_alwaysRewrites(inventoryData, server) ==
    IF inventoryData.kind # "json" THEN [data |-> inventoryData, modified |-> FALSE]
    ELSE [data |-> JsonInv(CleanInventoryLoop(inventoryData.slots, server).cleaned),
          modified |-> TRUE]

cleanInventoryContents(inventoryData, server) ==
    IF inventoryData.kind # "json" THEN [data |-> inventoryData, modified |-> FALSE]
    ELSE LET r == CleanInventoryLoop(inventoryData.slots, server)
         IN  IF r.modified
             THEN [data |-> JsonInv(r.cleaned), modified |-> TRUE]
             ELSE [data |-> inventoryData, modified |-> FALSE]

\* -------------------------------------------------------------------------
\* Inventories the callers put
\* -------------------------------------------------------------------------
InvRaw == RawBytes("inv1")

\* A sword of s1, an empty slot, and a box of s2 holding a diamond of s1 and
\* a box of s2 that holds iron of s1 and coal of s2; origin lines carry the
\* timestamp.
InvStamped ==
    JsonInv(<< Item("sword", <<StampedOriginLine("s1")>>, <<>>, FALSE),
               Null,
               Item("box", <<TextLine, StampedOriginLine("s2")>>,
                    << Item("diamond", <<StampedOriginLine("s1")>>, <<>>, FALSE),
                       Item("box", <<StampedOriginLine("s2")>>,
                            << Item("iron", <<StampedOriginLine("s1")>>, <<>>, FALSE),
                               Item("coal", <<StampedOriginLine("s2")>>, <<>>, TRUE) >>,
                            FALSE) >>,
                    TRUE) >>)

\* The inventory of the spec's concrete scenario: plain "Origin: <server>" lines.
InvPlain ==
    JsonInv(<< Item("sword", <<OriginLine("s1")>>, <<>>, FALSE),
               Item("box", <<OriginLine("s2")>>,
                    << Item("diamond", <<OriginLine("s1")>>, <<>>, FALSE) >>,
                    FALSE) >>)

\* The inventories with item trees.
Inventories == {InvStamped, InvPlain}


\* -------------------------------------------------------------------------
\* Stored values and results
\* -------------------------------------------------------------------------
\* InventoryEntry (database.go:21-25). Its JSON encoding keeps the bytes
\* (base64), the server and the wall-clock reading of the timestamp.
Entry(inv, server, ts) == [inventory |-> inv, server |-> server, timestamp |-> ts]
NoEntry == Entry(RawBytes(""), "", 0)

\* What leveldb holds under a key.
None == [kind |-> "none", entries |-> <<>>, inv |-> RawBytes("")]
Record(entries) == [kind |-> "record", entries |-> entries, inv |-> RawBytes("")]
\* A legacy value: a bare inventory array.
Legacy(inv) == [kind |-> "legacy", entries |-> <<>>, inv |-> inv]
\* Bytes that are not JSON.
Corrupt == [kind |-> "corrupt", entries |-> <<>>, inv |-> RawBytes("")]

\* ChangeEntry (database.go:32-37)
ChangeEntry(player, entry, ts, deleted) ==
    [player |-> player, entry |-> entry, timestamp |-> ts, deleted |-> deleted]

ErrNone == "ok"
ErrClosed == "closed"
ErrPlayerNotFound == "not_found"
ErrDecode == "json_error"
ErrEngine == "io_error"

NoVal == [kind |-> "nil"]
BytesVal(b) == [kind |-> "bytes", bytes |-> b]
EntriesVal(es) == [kind |-> "entries", entries |-> es]
\* What a call returns: the error and the value.
Result(op, player, err, val) == [op |-> op, player |-> player, err |-> err, val |-> val]
\* What `res` keeps of it: the operation and the error.
Returned(r) == [op |-> r.op, err |-> r.err]

Min(a, b) == IF a < b THEN a ELSE b

\* Timestamp.After
After(a, b) == a > b

VARIABLES
    store,      \* leveldb: player key -> stored value
    changeLog,  \* db.changeLog
    closed,     \* db.closed
    now,        \* the last reading of time.Now()
    del,        \* the Delete call that holds db.mu, with its iterator
    res,        \* what the last finished call returned
    puts,       \* per player: successful Put calls
    removed,    \* per player: entries dropped by Delete
    deletes,    \* Delete calls that started a scan
    run,        \* per player: the Puts since construction, while their
                \* timestamps strictly increase and no Delete has run
    stream,     \* the StreamAll background task
    ch,         \* the stream's channel buffer
    sent,       \* the items the stream put on the channel, in order
    waiting,    \* the writer call that called db.mu.Lock() and has not returned
    threads,    \* per caller thread: its Put call in progress, step by step
    val,        \* the validator's call: the item, the claimed server, the result
    job         \* an inventory handed to ValidateInventory, the cleaner or the codec

vars == <<store, changeLog, closed, now, del, res, puts, removed, deletes, run,
          stream, ch, sent, waiting, threads, val, job>>

dbVars == <<store, changeLog, closed, now, del, res, puts, removed, deletes, run>>
streamVars == <<stream, ch, sent>>
callVars == <<waiting, threads, val, job>>

Idle == [pc |-> "idle", server |-> "", force |-> FALSE, snap |-> <<>>, iter |-> <<>>]
\* The threads that call Put concurrently, and a thread outside any call.
Threads == {"t1", "t2"}
ThreadIdle == [pc |-> "idle", player |-> "", inventory |-> RawBytes(""), server |-> "",
               existing |-> <<>>, newEntry |-> NoEntry]

\* The validator has not been called.
ValIdle == [item |-> Null, base |-> Null, server |-> "", edits |-> <<>>,
            done |-> FALSE, errors |-> <<>>]

\* No inventory has been handed to the validator, the cleaner or the codec.
JobIdle == [pc |-> "idle"]

\* No writer call is under way.
NoCall == [op |-> "none", player |-> "", server |-> "", force |-> FALSE]
PutCall(player, server) == [op |-> "Put", player |-> player, server |-> server, force |-> FALSE]
DeleteCall(server, force) == [op |-> "Delete", player |-> "", server |-> server, force |-> force]

\* quiet: no Put or Delete wrote since StreamAll was called; dropped: sends
\* that found the channel full.
StreamIdle == [pc |-> "idle", syncStart |-> 0, snap |-> <<>>, iter |-> <<>>,
               log |-> <<>>, quiet |-> TRUE, dropped |-> 0]

\* A Put or Delete wrote to the engine while the stream task runs.
NoteWrite(st) == IF st.pc \in {"idle", "done"} THEN st ELSE [st EXCEPT !.quiet = FALSE]

\* db.mu: Delete holds it exclusively between its steps; the stream holds it
\* shared while it reads the change log.
\* Mutant: a writer keeps db.mu for ever.
WriterHolds_notReleased == TRUE

WriterHolds == del.pc # "idle"
\* Mutant: the task returns without db.mu.RUnlock().
ReaderHolds_notReleased == stream.pc \in {"catchup", "done"}

ReaderHolds == stream.pc = "catchup"
LockFree == ~WriterHolds /\ ~ReaderHolds

\* The keys an iterator over `s` visits, in key order.
RECURSIVE KeysFrom(_, _)
KeysFrom(s, i) ==
    IF i > Len(KeyOrder) THEN <<>>
    ELSE IF s[KeyOrder[i]].kind = "none" THEN KeysFrom(s, i + 1)
    ELSE <<KeyOrder[i]>> \o KeysFrom(s, i + 1)

IterKeys(s) == KeysFrom(s, 1)

\* sort.Slice with less = Timestamp.After: the result is ordered newest
\* first; sort.Slice is not stable, so entries with equal timestamps may end
\* in any order.
IndexPerms(n) == {f \in [1..n -> 1..n] : \A i, j \in 1..n : i # j => f[i] # f[j]}

IsSortedDesc(es) == \A i \in 1..(Len(es) - 1) : ~After(es[i + 1].timestamp, es[i].timestamp)

\* Mutant: the comparison turned round (oldest first).
SortEntries_ascending(es) ==
    {r \in {[i \in 1..Len(es) |-> es[f[i]]] : f \in IndexPerms(Len(es))} :
        \A i \in 1..(Len(r) - 1) : ~After(r[i].timestamp, r[i + 1].timestamp)}

SortEntries(es) ==
    {r \in {[i \in 1..Len(es) |-> es[f[i]]] : f \in IndexPerms(Len(es))} :
        IsSortedDesc(r)}

\* Keep the last LogCap entries (database.go:300-302, 452-454).
TrimLog(log) ==
    IF Len(log) > LogCap THEN SubSeq(log, Len(log) - LogCap + 1, Len(log)) ELSE log

\* -------------------------------------------------------------------------
\* DB.Put (database.go:241-305)
\* -------------------------------------------------------------------------
\* Mutant: the new entry replaces the record instead of being appended.
AppendEntry_overwrite(entries, newEntry) == <<newEntry>>

AppendEntry(entries, newEntry) == Append(entries, newEntry)

TotalPuts == puts["p1"] + puts["p2"]

Put(player, inventory, server) ==
    /\ LockFree
    /\ UNCHANGED <<closed, del, removed, deletes, ch, sent>>
    /\ IF closed
       THEN /\ res' = Returned(Result("Put", player, ErrClosed, NoVal))
            /\ UNCHANGED <<store, changeLog, now, puts, run, stream>>
       ELSE \E t \in now..Min(now + 1, MaxTime) :
            /\ now' = t
            /\ IF store[player].kind \in {"legacy", "corrupt"}
               THEN \* the stored value does not decode as a record
                    /\ res' = Returned(Result("Put", player, ErrDecode, NoVal))
                    /\ UNCHANGED <<store, changeLog, puts, run, stream>>
               ELSE /\ TotalPuts < MaxPuts
                    /\ stream' = NoteWrite(stream)
                    /\ LET newEntry == Entry(inventory, server, t)
                       IN  /\ \E sorted \in SortEntries(AppendEntry(store[player].entries, newEntry)) :
                                 store' = [store EXCEPT ![player] = Record(sorted)]
                           /\ changeLog' = TrimLog(Append(changeLog,
                                               ChangeEntry(player, newEntry, t, FALSE)))
                           /\ run' = [run EXCEPT ![player] =
                                        IF @.ok /\ After(t, @.last.timestamp)
                                        THEN [ok |-> TRUE, last |-> newEntry]
                                        ELSE [ok |-> FALSE, last |-> NoEntry]]
                    /\ puts' = [puts EXCEPT ![player] = @ + 1]
                    /\ res' = Returned(Result("Put", player, ErrNone, NoVal))

\* Mutant: the change is logged before the write that fails.
PutEngineFailure_logged(player) ==
    /\ LockFree
    /\ ~closed
    /\ res' = Returned(Result("Put", player, ErrEngine, NoVal))
    /\ changeLog' = TrimLog(Append(changeLog, ChangeEntry(player, NoEntry, now, FALSE)))
    /\ UNCHANGED <<store, closed, now, del, puts, removed, deletes, run, streamVars>>

\* A Put whose leveldb.Get (database.go:260-263) or leveldb.Put
\* (database.go:286-289) fails: the error is returned.
PutEngineFailure(player) ==
    /\ LockFree
    /\ ~closed
    /\ res' = Returned(Result("Put", player, ErrEngine, NoVal))
    /\ UNCHANGED <<store, changeLog, closed, now, del, puts, removed, deletes, run, streamVars>>

\* -------------------------------------------------------------------------
\* DB.Get (database.go:308-346), DB.GetPlayerInventories (database.go:521-544)
\* -------------------------------------------------------------------------
\* Mutant: the oldest entry is returned.
LatestInventory_oldest(entries) == entries[Len(entries)].inventory

LatestInventory(entries) == entries[1].inventory

\* Mutant: Get does not look at db.closed.
GetClosed_ignored == FALSE

\* database.go:312
GetClosed == closed

\* Mutant: only the {entries:[...]} format is read.
GetResult_recordsOnly(player) ==
    IF GetClosed THEN Result("Get", player, ErrClosed, NoVal)
    ELSE LET data == store[player]
         IN  CASE data.kind = "none" -> Result("Get", player, ErrPlayerNotFound, NoVal)
               [] data.kind \in {"corrupt", "legacy"} -> Result("Get", player, ErrDecode, NoVal)
               [] data.kind = "record" ->
                    IF Len(data.entries) = 0
                    THEN Result("Get", player, ErrPlayerNotFound, NoVal)
                    ELSE Result("Get", player, ErrNone,
                                BytesVal(LatestInventory(data.entries)))

GetResult(player) ==
    IF GetClosed THEN Result("Get", player, ErrClosed, NoVal)
    ELSE LET data == store[player]
         IN  CASE data.kind = "none" -> Result("Get", player, ErrPlayerNotFound, NoVal)
               [] data.kind = "corrupt" -> Result("Get", player, ErrDecode, NoVal)
               [] data.kind = "legacy" -> Result("Get", player, ErrNone, BytesVal(data.inv))
               [] data.kind = "record" ->
                    IF Len(data.entries) = 0
                    THEN Result("Get", player, ErrPlayerNotFound, NoVal)
                    ELSE Result("Get", player, ErrNone,
                                BytesVal(LatestInventory(data.entries)))

GetPlayerInventoriesResult(player) ==
    IF closed THEN Result("GetPlayerInventories", player, ErrClosed, NoVal)
    ELSE LET data == store[player]
         IN  CASE data.kind = "none" ->
                    Result("GetPlayerInventories", player, ErrPlayerNotFound, NoVal)
               [] data.kind \in {"corrupt", "legacy"} ->
                    Result("GetPlayerInventories", player, ErrDecode, NoVal)
               [] data.kind = "record" ->
                    Result("GetPlayerInventories", player, ErrNone, EntriesVal(data.entries))

Get(player) ==
    /\ ~WriterHolds
    /\ res' = Returned(GetResult(player))
    /\ UNCHANGED <<store, changeLog, closed, now, del, puts, removed, deletes, run, streamVars>>

GetPlayerInventories(player) ==
    /\ ~WriterHolds
    /\ res' = Returned(GetPlayerInventoriesResult(player))
    /\ UNCHANGED <<store, changeLog, closed, now, del, puts, removed, deletes, run, streamVars>>

\* -------------------------------------------------------------------------
\* DB.Delete (database.go:351-457)
\* -------------------------------------------------------------------------
\* The zero time.Time
ZeroTime == 0

\* database.go:376-383: the latest timestamp of the server's entries
RECURSIVE LatestServerTimestamp(_, _, _)
LatestServerTimestamp(entries, server, acc) ==
    IF entries = <<>> THEN acc
    ELSE LET entry == Head(entries)
         IN  LatestServerTimestamp(Tail(entries), server,
                 IF entry.server = server /\ After(entry.timestamp, acc)
                 THEN entry.timestamp ELSE acc)

\* Mutant: the IsZero test of the server's timestamp is left out.
DroppedByForce_noZeroTest(entry, force, serverTimestamp) ==
    force /\ After(entry.timestamp, serverTimestamp)

\* database.go:393
DroppedByForce(entry, force, serverTimestamp) ==
    force /\ serverTimestamp # ZeroTime /\ After(entry.timestamp, serverTimestamp)

\* Mutant: the server's own entries are kept.
IsServerEntry_never(entry, server) == FALSE

\* database.go:387
IsServerEntry(entry, server) == entry.server = server

RECURSIVE FilterEntries_alwaysModified(_, _, _, _)
\* Mutant: every record counts as changed, so it is written and logged again.
FilterEntries_alwaysModified(entries, server, force, serverTimestamp) ==
    IF entries = <<>> THEN [newEntries |-> <<>>, modified |-> TRUE, dropped |-> 0]
    ELSE LET entry == Head(entries)
             rest == FilterEntries_alwaysModified(Tail(entries), server, force, serverTimestamp)
         IN  IF IsServerEntry(entry, server)
                  \/ DroppedByForce(entry, force, serverTimestamp)
             THEN [newEntries |-> rest.newEntries, modified |-> TRUE,
                   dropped |-> rest.dropped + 1]
             ELSE LET c == cleanInventoryContents(entry.inventory, server)
                      cleanedEntry == IF c.modified
                                      THEN [entry EXCEPT !.inventory = c.data]
                                      ELSE entry
                  IN  [newEntries |-> <<cleanedEntry>> \o rest.newEntries,
                       modified |-> TRUE,
                       dropped |-> rest.dropped]

\* database.go:385-407: the entries kept, whether anything changed, and how
\* many entries were dropped.
RECURSIVE FilterEntries(_, _, _, _)
FilterEntries(entries, server, force, serverTimestamp) ==
    IF entries = <<>> THEN [newEntries |-> <<>>, modified |-> FALSE, dropped |-> 0]
    ELSE LET entry == Head(entries)
             rest == FilterEntries(Tail(entries), server, force, serverTimestamp)
         IN  IF IsServerEntry(entry, server)
                  \/ DroppedByForce(entry, force, serverTimestamp)
             THEN [newEntries |-> rest.newEntries, modified |-> TRUE,
                   dropped |-> rest.dropped + 1]
             ELSE LET c == cleanInventoryContents(entry.inventory, server)
                      cleanedEntry == IF c.modified
                                      THEN [entry EXCEPT !.inventory = c.data]
                                      ELSE entry
                  IN  [newEntries |-> <<cleanedEntry>> \o rest.newEntries,
                       modified |-> c.modified \/ rest.modified,
                       dropped |-> rest.dropped]

\* Mutant: an emptied record is written back instead of the key being deleted.
NoEntriesLeft_never(newEntries) == FALSE

\* database.go:411
NoEntriesLeft(newEntries) == Len(newEntries) = 0

\* Lock, closed check, and the iterator over the store as it is now
\* (database.go:352-361).
DeleteBegin(server, force) ==
    /\ LockFree
    /\ UNCHANGED <<store, changeLog, closed, now, puts, removed, streamVars>>
    /\ IF closed
       THEN /\ res' = Returned(Result("Delete", "", ErrClosed, NoVal))
            /\ UNCHANGED <<del, run, deletes>>
       ELSE /\ deletes < MaxDeletes
            /\ deletes' = deletes + 1
            /\ del' = [pc |-> "scan", server |-> server, force |-> force,
                       snap |-> store, iter |-> IterKeys(store)]
            /\ run' = [p \in Players |-> [ok |-> FALSE, last |-> NoEntry]]
            /\ UNCHANGED res

\* Mutant: the scan ends at a value that does not decode.
ScanRest_endsAtUndecodable(iter, data) == IF data.kind # "record" THEN <<>> ELSE Tail(iter)

\* The keys the iterator has still to visit after this one; `continue` at a
\* value that does not decode (database.go:363-370).
ScanRest(iter, data) == Tail(iter)

\* Mutant: a changed record is not logged.
LogDeletion_skipped(log, player, server, t) == log

\* db.changeLog = append(db.changeLog, ChangeEntry{..., deleted: true})
\* (database.go:437-443)
LogDeletion(log, player, server, t) ==
    Append(log, ChangeEntry(player, Entry(RawBytes(""), server, ZeroTime), t, TRUE))

\* One round of the loop at database.go:363-445.
DeleteStep ==
    /\ del.pc = "scan"
    /\ del.iter # <<>>
    /\ UNCHANGED <<closed, res, puts, deletes, run, ch, sent>>
    /\ del' = [del EXCEPT !.iter = ScanRest(@, del.snap[Head(del.iter)])]
    /\ LET player == Head(del.iter)
           data == del.snap[player]
           f == FilterEntries(data.entries, del.server, del.force,
                              LatestServerTimestamp(data.entries, del.server, ZeroTime))
       IN  IF data.kind # "record" \/ ~f.modified
           THEN \* a value that does not decode is skipped; an unchanged record is not written
                UNCHANGED <<store, changeLog, now, removed, stream>>
           ELSE \E t \in now..Min(now + 1, MaxTime) :
                /\ now' = t
                /\ stream' = NoteWrite(stream)
                /\ IF NoEntriesLeft(f.newEntries)
                   THEN store' = [store EXCEPT ![player] = None]
                   ELSE \E sorted \in SortEntries(f.newEntries) :
                           store' = [store EXCEPT ![player] = Record(sorted)]
                /\ changeLog' = LogDeletion(changeLog, player, del.server, t)
                /\ removed' = [removed EXCEPT ![player] = @ + f.dropped]

\* The engine fails during the scan: leveldb.Delete (database.go:413-416),
\* leveldb.Put (database.go:431-434) or the iterator (database.go:447-449,
\* the loop ends early). Delete returns the error at once.
DeleteEngineFailure ==
    /\ del.pc = "scan"
    /\ del.iter # <<>>
    /\ del' = Idle
    /\ res' = Returned(Result("Delete", "", ErrEngine, NoVal))
    /\ UNCHANGED <<store, changeLog, closed, now, puts, removed, deletes, run, streamVars>>

\* The iterator is exhausted: database.go:447-456.
DeleteEnd ==
    /\ del.pc = "scan"
    /\ del.iter = <<>>
    /\ UNCHANGED <<store, closed, now, puts, removed, deletes, run, streamVars>>
    /\ del' = Idle
    /\ changeLog' = TrimLog(changeLog)
    /\ res' = Returned(Result("Delete", "", ErrNone, NoVal))

\* -------------------------------------------------------------------------
\* DB.Close (database.go:623-633)
\* -------------------------------------------------------------------------
Close ==
    /\ LockFree
    /\ UNCHANGED <<store, changeLog, now, del, puts, removed, deletes, run, streamVars>>
    /\ closed' = TRUE
    /\ res' = Returned(Result("Close", "", ErrNone, NoVal))

\* -------------------------------------------------------------------------
\* DB.StreamAll (database.go:546-621) and its consumer
\* -------------------------------------------------------------------------
\* pb.SyncDatabaseData; the value of a deletion marker is nil.
Pair(key, value) == [key |-> key, value |-> value]
NilValue == None

\* Mutant: the send is taken whatever the buffer holds.
CanSend_always(buffer) == TRUE

\* select { case ch <- x: ... default: } succeeds when the buffer has room.
CanSend(buffer) == Len(buffer) < ChanCap

\* StreamAll makes the channel and starts the task (database.go:547-549).
StreamAll ==
    /\ stream.pc = "idle"
    /\ stream' = [StreamIdle EXCEPT !.pc = "mark"]
    /\ ch' = <<>>
    /\ sent' = <<>>
    /\ UNCHANGED dbVars

\* syncStart := time.Now() (database.go:553)
StreamMark ==
    /\ stream.pc = "mark"
    /\ \E t \in now..Min(now + 1, MaxTime) :
          /\ now' = t
          /\ stream' = [stream EXCEPT !.pc = "snapshot", !.syncStart = t]
    /\ UNCHANGED <<store, changeLog, closed, del, res, puts, removed, deletes, run, ch, sent>>

\* GetSnapshot and the iterator over it (database.go:556-564); on a closed
\* engine GetSnapshot fails and the task ends, closing the channel.
StreamSnapshot ==
    /\ stream.pc = "snapshot"
    /\ stream' = IF closed
                 THEN [stream EXCEPT !.pc = "done"]
                 ELSE [stream EXCEPT !.pc = "iter", !.snap = store, !.iter = IterKeys(store)]
    /\ UNCHANGED <<dbVars, ch, sent>>

\* Mutant: the value sent is the player's newest inventory, not the record.
SnapshotValue_latestOnly(snap, key) ==
    IF snap[key].kind = "record" THEN Legacy(snap[key].entries[1].inventory) ELSE snap[key]

\* iter.Value() (database.go:569)
SnapshotValue(snap, key) == snap[key]

\* One round of the loop over the snapshot (database.go:566-580).
StreamNext ==
    /\ stream.pc = "iter"
    /\ stream.iter # <<>>
    /\ LET key == Head(stream.iter)
           item == Pair(key, SnapshotValue(stream.snap, key))
       IN  IF CanSend(ch)
           THEN /\ ch' = Append(ch, item)
                /\ sent' = Append(sent, item)
                /\ stream' = [stream EXCEPT !.iter = Tail(@)]
           ELSE /\ stream' = [stream EXCEPT !.iter = Tail(@), !.dropped = @ + 1]
                /\ UNCHANGED <<ch, sent>>
    /\ UNCHANGED dbVars

\* The engine was closed under the iterator: the loop may end with an error
\* and the task returns (database.go:582-584).
StreamIterError ==
    /\ stream.pc = "iter"
    /\ closed
    /\ stream' = [stream EXCEPT !.pc = "done", !.iter = <<>>]
    /\ UNCHANGED <<dbVars, ch, sent>>

\* The loop is over; db.mu.RLock() and the range over db.changeLog
\* (database.go:587-588).
StreamRLock ==
    /\ stream.pc = "iter"
    /\ stream.iter = <<>>
    /\ ~WriterHolds
    /\ waiting = NoCall   \* sync.RWMutex: a waiting writer holds new readers back
    /\ stream' = [stream EXCEPT !.pc = "catchup", !.log = changeLog]
    /\ UNCHANGED <<dbVars, ch, sent>>

\* One round of the loop over the change log (database.go:588-616).
StreamCatchUp ==
    /\ stream.pc = "catchup"
    /\ stream.log # <<>>
    /\ LET change == Head(stream.log)
           rest == [stream EXCEPT !.log = Tail(@)]
           data == store[change.player]
           send(item) ==
               IF CanSend(ch)
               THEN /\ ch' = Append(ch, item)
                    /\ sent' = Append(sent, item)
                    /\ stream' = rest
               ELSE /\ stream' = [rest EXCEPT !.dropped = @ + 1]
                    /\ UNCHANGED <<ch, sent>>
       IN  IF ~After(change.timestamp, stream.syncStart)
           THEN /\ stream' = rest
                /\ UNCHANGED <<ch, sent>>
           ELSE IF change.deleted
           THEN send(Pair(change.player, NilValue))
           ELSE IF closed \/ data.kind = "none"
           THEN \* leveldb.Get fails (closed, not found): nothing is sent
                /\ stream' = rest
                /\ UNCHANGED <<ch, sent>>
           ELSE send(Pair(change.player, data))
    /\ UNCHANGED dbVars

\* db.mu.RUnlock() and the deferred close(ch) (database.go:617, 550).
StreamFinish ==
    /\ stream.pc = "catchup"
    /\ stream.log = <<>>
    /\ stream' = [stream EXCEPT !.pc = "done"]
    /\ UNCHANGED <<dbVars, ch, sent>>

\* The consumer takes the oldest item off the channel.
Receive ==
    /\ ch # <<>>
    /\ ch' = Tail(ch)
    /\ UNCHANGED <<dbVars, stream, sent>>

\* -------------------------------------------------------------------------
\* Specification of the store operations
\* -------------------------------------------------------------------------
\* New (database.go:223-238) opens the directory: an empty store, or one that
\* already holds a legacy value or undecodable bytes under a key.
InitialValues == {None, Legacy(InvStamped), Corrupt}

InitWith(initialStores) ==
    /\ store \in initialStores
    /\ changeLog = <<>>
    /\ closed = FALSE
    /\ now = 1
    /\ del = Idle
    /\ res = Returned(Result("New", "", ErrNone, NoVal))
    /\ puts = [p \in Players |-> 0]
    /\ removed = [p \in Players |-> 0]
    /\ deletes = 0
    /\ run = [p \in Players |-> [ok |-> TRUE, last |-> NoEntry]]
    /\ stream = StreamIdle
    /\ ch = <<>>
    /\ sent = <<>>
    /\ waiting = NoCall
    /\ threads = [t \in Threads |-> ThreadIdle]
    /\ val = ValIdle
    /\ job = JobIdle

Init == InitWith({s \in [Players -> InitialValues] : \E p \in Players : s[p] = None})

\* A store opened on an empty directory.
InitEmpty == InitWith({[p \in Players |-> None]})

\* The inventories of the full-interface specification.
CallInventories == {InvRaw}

\* Every operation of the store, engine failures included.
Next ==
    \/ \E p \in Players, inv \in CallInventories, s \in Servers : Put(p, inv, s) /\ UNCHANGED callVars
    \/ \E p \in Players : PutEngineFailure(p) /\ UNCHANGED callVars
    \/ \E p \in Players : Get(p) /\ UNCHANGED callVars
    \/ \E p \in Players : GetPlayerInventories(p) /\ UNCHANGED callVars
    \/ \E s \in Servers, force \in BOOLEAN : DeleteBegin(s, force) /\ UNCHANGED callVars
    \/ DeleteStep /\ UNCHANGED callVars
    \/ DeleteEngineFailure /\ UNCHANGED callVars
    \/ DeleteEnd /\ UNCHANGED callVars
    \/ Close /\ UNCHANGED callVars

Spec == Init /\ [][Next]_vars

\* The writes of the ledger on an engine that does not fail, with inventories
\* that hold item trees.
NextLedger ==
    \/ \E p \in Players, inv \in Inventories, s \in Servers : Put(p, inv, s) /\ UNCHANGED callVars
    \/ \E s \in Servers, force \in BOOLEAN : DeleteBegin(s, force) /\ UNCHANGED callVars
    \/ DeleteStep /\ UNCHANGED callVars
    \/ DeleteEnd /\ UNCHANGED callVars

SpecLedger == InitEmpty /\ [][NextLedger]_vars

\* A store opened on a directory that a former run filled: p1 has an entry of
\* each server, p2 an entry of s1. The change log of the new run is empty.
PreloadedStore ==
    [p \in Players |->
        IF p = "p1"
        THEN Record(<<Entry(InvRaw, "s2", 1), Entry(InvRaw, "s1", 1)>>)
        ELSE Record(<<Entry(InvStamped, "s1", 1)>>)]

InitStream == InitWith({[p \in Players |-> None], PreloadedStore})

\* The calls explored beside the stream are those made before its task ends.
StreamRuns == stream.pc # "done"

\* One stream with its consumer, beside the calls that write or close.
NextStream ==
    \/ StreamAll /\ UNCHANGED callVars
    \/ StreamMark /\ UNCHANGED callVars
    \/ StreamSnapshot /\ UNCHANGED callVars
    \/ StreamNext /\ UNCHANGED callVars
    \/ StreamIterError /\ UNCHANGED callVars
    \/ StreamRLock /\ UNCHANGED callVars
    \/ StreamCatchUp /\ UNCHANGED callVars
    \/ StreamFinish /\ UNCHANGED callVars
    \/ Receive /\ UNCHANGED callVars
    \/ \E p \in Players, inv \in CallInventories, s \in Servers :
          StreamRuns /\ TotalPuts < MaxStreamPuts /\ Put(p, inv, s) /\ UNCHANGED callVars
    \/ \E s \in Servers : StreamRuns /\ DeleteBegin(s, FALSE) /\ UNCHANGED callVars
    \/ DeleteStep /\ UNCHANGED callVars
    \/ DeleteEnd /\ UNCHANGED callVars
    \/ StreamRuns /\ Close /\ UNCHANGED callVars

SpecStream == InitStream /\ [][NextStream]_vars

\* -------------------------------------------------------------------------
\* Specification of a stream beside writers that wait for db.mu, under fair
\* scheduling of the goroutines; the consumer may stop reading at any time.
\* -------------------------------------------------------------------------
\* A thread calls Put or Delete while the stream is in progress and blocks in
\* db.mu.Lock() (database.go:242, 352).
IssueWrite ==
    /\ waiting = NoCall
    /\ stream.pc \notin {"idle", "done"}
    /\ \/ \E p \in Players, s \in Servers :
             TotalPuts < MaxStreamPuts /\ waiting' = PutCall(p, s)
       \/ \E s \in Servers :
             deletes < MaxDeletes /\ waiting' = DeleteCall(s, FALSE)
    /\ UNCHANGED <<dbVars, streamVars, threads, val, job>>

\* The waiting Put gets the lock, runs and returns.
WriterPut ==
    /\ waiting.op = "Put"
    /\ \E inv \in CallInventories : Put(waiting.player, inv, waiting.server)
    /\ waiting' = NoCall
    /\ UNCHANGED <<threads, val, job>>

\* The waiting Delete gets the lock; on a closed store it returns at once.
WriterDeleteBegin ==
    /\ waiting.op = "Delete"
    /\ del.pc = "idle"
    /\ DeleteBegin(waiting.server, waiting.force)
    /\ waiting' = IF closed THEN NoCall ELSE waiting
    /\ UNCHANGED <<threads, val, job>>

WriterDeleteEnd == DeleteEnd /\ waiting' = NoCall /\ UNCHANGED <<threads, val, job>>

\* The steps of the writer's thread and of the stream's goroutine.
WriterTask ==
    \/ WriterPut
    \/ WriterDeleteBegin
    \/ DeleteStep /\ UNCHANGED callVars
    \/ WriterDeleteEnd

StreamTask ==
    \/ StreamMark /\ UNCHANGED callVars
    \/ StreamSnapshot /\ UNCHANGED callVars
    \/ StreamNext /\ UNCHANGED callVars
    \/ StreamIterError /\ UNCHANGED callVars
    \/ StreamRLock /\ UNCHANGED callVars
    \/ StreamCatchUp /\ UNCHANGED callVars
    \/ StreamFinish /\ UNCHANGED callVars

NextLive ==
    \/ StreamAll /\ UNCHANGED callVars
    \/ StreamTask
    \/ Receive /\ UNCHANGED callVars
    \/ IssueWrite
    \/ WriterTask
    \/ StreamRuns /\ Close /\ UNCHANGED callVars

\* Both goroutines are scheduled fairly; the consumer (Receive) is not.
SpecLive ==
    /\ InitStream
    /\ [][NextLive]_vars
    /\ WF_vars(StreamTask)
    /\ WF_vars(WriterTask)

\* -------------------------------------------------------------------------
\* Specification of concurrent Put calls, one per thread, each taken through
\* its steps: lock, read, write and unlock (database.go:241-305).
\* -------------------------------------------------------------------------
\* Mutant: db.mu lets a second writer in.
MutexFree_shared(t) == TRUE

\* db.mu.Lock() succeeds for thread t when no other thread is inside it.
MutexFree(t) == \A u \in Threads \ {t} : threads[u].pc = "idle"

ThreadCalls == puts["p1"] + puts["p2"] + Cardinality({t \in Threads : threads[t].pc # "idle"})

\* db.mu.Lock() (database.go:242)
PutLock(t, player, inventory, server) ==
    /\ threads[t].pc = "idle"
    /\ ThreadCalls < MaxThreadPuts
    /\ LockFree
    /\ MutexFree(t)
    /\ threads' = [threads EXCEPT ![t] = [ThreadIdle EXCEPT !.pc = "locked", !.player = player,
                                          !.inventory = inventory, !.server = server]]
    /\ UNCHANGED <<dbVars, streamVars, waiting, val, job>>

\* The closed test, the new entry with its timestamp, and leveldb.Get with
\* the decoding of what is stored (database.go:245-270).
PutRead(t) ==
    /\ threads[t].pc = "locked"
    /\ UNCHANGED <<store, changeLog, closed, del, puts, removed, deletes, run, streamVars, waiting, val, job>>
    /\ IF closed
       THEN /\ threads' = [threads EXCEPT ![t] = ThreadIdle]
            /\ res' = Returned(Result("Put", threads[t].player, ErrClosed, NoVal))
            /\ UNCHANGED now
       ELSE \E ts \in now..Min(now + 1, MaxTime) :
            /\ now' = ts
            /\ UNCHANGED res
            /\ threads' = [threads EXCEPT ![t] =
                    [@ EXCEPT !.pc = "read",
                              !.existing = store[threads[t].player].entries,
                              !.newEntry = Entry(threads[t].inventory, threads[t].server, ts)]]

\* append, sort, leveldb.Put, the change log and the deferred Unlock
\* (database.go:273-304).
PutWrite(t) ==
    /\ threads[t].pc = "read"
    /\ UNCHANGED <<closed, now, del, removed, deletes, run, ch, sent, waiting, val, job>>
    /\ LET call == threads[t]
       IN  /\ \E sorted \in SortEntries(AppendEntry(call.existing, call.newEntry)) :
                 store' = [store EXCEPT ![call.player] = Record(sorted)]
           /\ changeLog' = TrimLog(Append(changeLog,
                               ChangeEntry(call.player, call.newEntry, now, FALSE)))
           /\ puts' = [puts EXCEPT ![call.player] = @ + 1]
           /\ res' = Returned(Result("Put", call.player, ErrNone, NoVal))
    /\ stream' = NoteWrite(stream)
    /\ threads' = [threads EXCEPT ![t] = ThreadIdle]

\* db.mu.RLock() of a reader (database.go:309, 522) waits for the writers.
NoWriterInside == \A t \in Threads : threads[t].pc = "idle"

NextThreads ==
    \/ \E t \in Threads, p \in Players, inv \in CallInventories, s \in Servers :
          PutLock(t, p, inv, s)
    \/ \E t \in Threads : PutRead(t)
    \/ \E t \in Threads : PutWrite(t)
    \/ \E p \in Players : NoWriterInside /\ Get(p) /\ UNCHANGED callVars
    \/ \E p \in Players : NoWriterInside /\ GetPlayerInventories(p) /\ UNCHANGED callVars

SpecThreads == InitEmpty /\ [][NextThreads]_vars

\* -------------------------------------------------------------------------
\* ItemValidator (validator.go:10-595)
\* -------------------------------------------------------------------------
\* An Item as the validator reads it. An enchantment is a JSON object: it
\* may lack a string "type" or a numeric "level". The durability map may be
\* absent, and either of its keys may be absent or hold something that is
\* not a number. A content slot is null, an object, or some other value.
Enchant(type, level) == [hasType |-> TRUE, type |-> type, levelOk |-> TRUE, level |-> level]
EnchantNoType == [hasType |-> FALSE, type |-> "", levelOk |-> TRUE, level |-> 1]
EnchantBadLevel(type) == [hasType |-> TRUE, type |-> type, levelOk |-> FALSE, level |-> 0]

NoDurability ==
    [present |-> FALSE, hasDamage |-> FALSE, damageOk |-> TRUE, damage |-> 0,
     hasMax |-> FALSE, maxOk |-> TRUE, max |-> 0]
Durability(damage, max) ==
    [present |-> TRUE, hasDamage |-> TRUE, damageOk |-> TRUE, damage |-> damage,
     hasMax |-> TRUE, maxOk |-> TRUE, max |-> max]
DamageOnly(damage) ==
    [present |-> TRUE, hasDamage |-> TRUE, damageOk |-> TRUE, damage |-> damage,
     hasMax |-> FALSE, maxOk |-> TRUE, max |-> 0]

ValItem(typeId, amount, enchantments, durability, lore, contents) ==
    [kind |-> "item", typeId |-> typeId, amount |-> amount, enchantments |-> enchantments,
     durability |-> durability, lore |-> lore, shulker |-> contents]

\* A content slot that is no JSON object: json.Unmarshal into Item fails.
Junk == [kind |-> "junk"]

\* The tables of validator.go:10-211, cut to the ids the model uses. A Go map
\* gives 0 for a key it does not hold.
Sword == "minecraft:diamond_sword"
Diamond == "minecraft:diamond"
Custom == "mod:gadget"

maxStackSizes(typeId) ==
    CASE typeId = Sword -> 1
      [] typeId = Diamond -> 64
      [] OTHER -> 0

Sharpness == "minecraft:sharpness"
Smite == "minecraft:smite"
Knockback == "minecraft:knockback"
Bogus == "mod:bogus"

maxEnchantmentLevels(type) ==
    CASE type = Sharpness -> 5
      [] type = Smite -> 5
      [] type = Knockback -> 2
      [] OTHER -> 0

incompatibleEnchantments(type) ==
    CASE type = Sharpness -> <<Smite, "minecraft:bane_of_arthropods">>
      [] type = Smite -> <<Sharpness, "minecraft:bane_of_arthropods">>
      [] OTHER -> <<>>

defaultMaxDurability(typeId) ==
    CASE typeId = Sword -> 1561
      [] OTHER -> 0

\* validateEnchantments (validator.go:325-398): the loop from index i with
\* the ids seen so far.
RECURSIVE ValidateEnchantmentsFrom(_, _, _)
ValidateEnchantmentsFrom(enchantments, i, seenEnchantments) ==
    IF i > Len(enchantments) THEN <<>>
    ELSE LET enchant == enchantments[i]
             maxLevel == maxEnchantmentLevels(enchant.type)
             seen == seenEnchantments \cup {enchant.type}
             incompatible == incompatibleEnchantments(enchant.type)
         IN  IF ~enchant.hasType \/ ~enchant.levelOk
             THEN <<"invalid_enchantment">>
                      \o ValidateEnchantmentsFrom(enchantments, i + 1, seenEnchantments)
             ELSE IF maxLevel = 0
             THEN <<"unknown_enchantment">>
                      \o ValidateEnchantmentsFrom(enchantments, i + 1, seenEnchantments)
             ELSE (IF enchant.level <= 0 \/ enchant.level > maxLevel
                   THEN <<"invalid_enchantment_level">> ELSE <<>>)
                  \o (IF enchant.type \in seenEnchantments
                      THEN <<"duplicate_enchantment">> ELSE <<>>)
                  \o [k \in 1..Len(SelectSeq(incompatible, LAMBDA e : e \in seen))
                         |-> "incompatible_enchantments"]
                  \o ValidateEnchantmentsFrom(enchantments, i + 1, seen)

\* Mutant: the check stops at its first error.
validateEnchantments_firstOnly(enchantments) ==
    LET errors == ValidateEnchantmentsFrom(enchantments, 1, {})
    IN  IF errors = <<>> THEN <<>> ELSE <<Head(errors)>>

\* Mutant: a repeated id is not reported.
validateEnchantments_repetitionAccepted(enchantments) ==
    SelectSeq(ValidateEnchantmentsFrom(enchantments, 1, {}),
              LAMBDA kind : kind # "duplicate_enchantment")

validateEnchantments(enchantments) == ValidateEnchantmentsFrom(enchantments, 1, {})

\* Mutant: a negative damage is accepted.
validateDurability_negativeAccepted(durability, itemType) ==
    IF (durability.hasDamage /\ ~durability.damageOk) \/ (durability.hasMax /\ ~durability.maxOk)
    THEN <<"invalid_durability">>
    ELSE LET damageInt == IF durability.hasDamage THEN durability.damage ELSE 0
         IN  (IF durability.hasMax /\ defaultMaxDurability(itemType) > 0
                    /\ durability.max # defaultMaxDurability(itemType)
              THEN <<"invalid_max_durability">> ELSE <<>>)
             \o (IF durability.hasMax /\ damageInt > durability.max
                 THEN <<"durability_exceeds_max">> ELSE <<>>)

\* validateDurability (validator.go:401-474)
validateDurability(durability, itemType) ==
    IF ~durability.hasDamage /\ ~durability.hasMax THEN <<>>
    ELSE IF durability.hasDamage /\ ~durability.damageOk THEN <<"invalid_durability">>
    ELSE IF durability.hasMax /\ ~durability.maxOk THEN <<"invalid_durability">>
    ELSE LET damageInt == IF durability.hasDamage THEN durability.damage ELSE 0
             maxDurInt == IF durability.hasMax THEN durability.max ELSE 0
             expectedMaxDur == defaultMaxDurability(itemType)
         IN  (IF damageInt < 0 THEN <<"negative_durability">> ELSE <<>>)
             \o (IF durability.hasMax /\ expectedMaxDur > 0 /\ maxDurInt # expectedMaxDur
                 THEN <<"invalid_max_durability">> ELSE <<>>)
             \o (IF durability.hasMax /\ damageInt > maxDurInt
                 THEN <<"durability_exceeds_max">> ELSE <<>>)

\* The validator's pattern ^Origin:\s+(.+)$ with strings.TrimSpace of the
\* capture: everything after "Origin:", a timestamp included.
StampSuffix == " 2024-01-01T10:00:00"
ValidatorOriginMatch(line) ==
    IF line.kind # "origin" THEN NoMatch
    ELSE IF line.stamp THEN line.server \o StampSuffix
    ELSE line.server

\* validateOrigin (validator.go:477-508): the first line that matches decides.
RECURSIVE FirstOrigin(_, _)
FirstOrigin(lore, i) ==
    IF i > Len(lore) THEN NoMatch
    ELSE IF ValidatorOriginMatch(lore[i]) # NoMatch THEN ValidatorOriginMatch(lore[i])
    ELSE FirstOrigin(lore, i + 1)

validateOrigin(lore, server) ==
    LET originServer == FirstOrigin(lore, 1)
    IN  IF originServer = NoMatch THEN <<"missing_origin">>
        ELSE IF originServer # server THEN <<"wrong_origin">>
        ELSE <<>>

\* ItemValidator.HasOriginFromServer (validator.go:574-590): some line matches
\* the validator's pattern and its trimmed capture is the server.
HasOriginFromServer(item, server) ==
    /\ Len(item.lore) > 0
    /\ \E i \in 1..Len(item.lore) :
          /\ ValidatorOriginMatch(item.lore[i]) # NoMatch
          /\ ValidatorOriginMatch(item.lore[i]) = server

\* ValidateItem (validator.go:265-322) and validateShulkerContents
\* (validator.go:511-548); the result is the list of ErrorType values.
RECURSIVE ValidateItem(_, _)
RECURSIVE ValidateShulkerFrom(_, _, _)
RECURSIVE ItemChecks(_, _)

ValidateShulkerFrom(contents, i, server) ==
    IF i > Len(contents) THEN <<>>
    ELSE (CASE contents[i].kind = "null" -> <<>>
            [] contents[i].kind = "junk" -> <<"invalid_shulker_content">>
            [] OTHER -> ValidateItem(contents[i], server))
         \o ValidateShulkerFrom(contents, i + 1, server)

validateShulkerContents(contents, server) == ValidateShulkerFrom(contents, 1, server)

\* The checks of an item that has a type (validator.go:278-321).
ItemChecks(item, server) ==
    (IF item.amount <= 0 THEN <<"invalid_amount">>
     ELSE LET maxStack == IF maxStackSizes(item.typeId) = 0
                          THEN 64 ELSE maxStackSizes(item.typeId)
          IN  IF item.amount > maxStack THEN <<"stack_too_large">> ELSE <<>>)
    \o (IF Len(item.enchantments) > 0
        THEN validateEnchantments(item.enchantments) ELSE <<>>)
    \o (IF item.durability.present
        THEN validateDurability(item.durability, item.typeId) ELSE <<>>)
    \o validateOrigin(item.lore, server)
    \o (IF Len(item.shulker) > 0
        THEN validateShulkerContents(item.shulker, server) ELSE <<>>)

\* Mutant: the missing type is reported and the other checks still run.
ValidateItem_noEarlyReturn(item, server) ==
    (IF item.typeId = "" THEN <<"missing_type">> ELSE <<>>) \o ItemChecks(item, server)

ValidateItem(item, server) ==
    IF item.typeId = "" THEN <<"missing_type">> ELSE ItemChecks(item, server)

\* -------------------------------------------------------------------------
\* Specification of the validator: an item that is legal for server s1 is
\* taken, some of its fields are set to other values, one field at a time,
\* and ValidateItem is called on the result for a claimed server.
\* -------------------------------------------------------------------------
LegalSword ==
    ValItem(Sword, 1, <<Enchant(Sharpness, 5), Enchant(Knockback, 2)>>,
            Durability(100, 1561), <<TextLine, OriginLine("s1")>>, <<>>)
LegalDiamonds == ValItem(Diamond, 64, <<>>, NoDurability, <<OriginLine("s1")>>, <<>>)
LegalBox ==
    ValItem(Custom, 1, <<>>, NoDurability, <<OriginLine("s1")>>, <<Null, LegalDiamonds>>)
\* An item of a type the tables do not know, with a durability map.
LegalTool == ValItem(Custom, 1, <<>>, Durability(10, 300), <<OriginLine("s1")>>, <<>>)
BaseItems == {LegalSword, LegalDiamonds, LegalBox, LegalTool}

\* The values a field is set to.
Amounts == {0, 2, 65}
EnchantTypes == {Sharpness, Smite, Knockback, Bogus}
EnchantLevels == {0, 3, 6}
AddedEnchants == {Enchant(Sharpness, 1), Enchant(Bogus, 1), EnchantNoType, EnchantBadLevel(Smite)}
Damages == {0 - 1, 2000}
\* JSON values that are not numbers.
NotNumbers == {"text"}
MaxDurabilities == {50, 2000}
Lores ==
    {<<>>, <<TextLine>>, <<OriginLine("s2")>>, <<OriginLine("s1"), OriginLine("s2")>>,
     <<StampedOriginLine("s1")>>}
Contents ==
    {<<Junk>>,
     <<ValItem("", 0, <<Enchant(Bogus, 1)>>, Durability(0 - 1, 50), <<>>, <<Junk>>)>>,
     <<ValItem(Diamond, 65, <<>>, NoDurability, <<OriginLine("s2")>>, <<>>)>>}

\* One field set to a value; index: which enchantment of the list.
Edit(field, index, value) == [value |-> value, field |-> field, index |-> index]

\* The item with one field set. An enchantment is changed where the list has
\* one at the index; a durability key is set where the item has the map.
CanEdit(item, edit) ==
    CASE edit.field \in {"enchantment.type", "enchantment.level"} ->
            /\ edit.index <= Len(item.enchantments)
            /\ item.enchantments[edit.index].hasType
            /\ item.enchantments[edit.index].levelOk
      [] edit.field = "enchantments" -> Len(item.enchantments) < MaxEnchants
      [] edit.field \in {"durability.damage", "durability.maxDurability",
                          "durability.maxDurability (not a number)"} ->
            item.durability.present
      [] OTHER -> TRUE

ApplyEdit(item, edit) ==
    CASE edit.field = "typeId" -> [item EXCEPT !.typeId = edit.value]
      [] edit.field = "amount" -> [item EXCEPT !.amount = edit.value]
      [] edit.field = "enchantment.type" ->
            [item EXCEPT !.enchantments[edit.index].type = edit.value]
      [] edit.field = "enchantment.level" ->
            [item EXCEPT !.enchantments[edit.index].level = edit.value]
      [] edit.field = "enchantments" ->
            [item EXCEPT !.enchantments = Append(@, edit.value)]
      [] edit.field = "durability.damage" -> [item EXCEPT !.durability.damage = edit.value]
      [] edit.field = "durability.maxDurability" -> [item EXCEPT !.durability.max = edit.value]
      [] edit.field = "durability.maxDurability (not a number)" ->
            [item EXCEPT !.durability.maxOk = FALSE]
      [] edit.field = "lore" -> [item EXCEPT !.lore = edit.value]
      [] OTHER -> [item EXCEPT !.shulker = edit.value]

\* The caller holds an item and names the server it claims for it.
TakeItem(item, server) ==
    /\ val = ValIdle
    /\ val' = [ValIdle EXCEPT !.item = item, !.base = item, !.server = server]
    /\ UNCHANGED <<dbVars, streamVars, waiting, threads, job>>

SetField(edit) ==
    /\ val # ValIdle
    /\ ~val.done
    /\ Len(val.edits) < MaxEdits
    /\ CanEdit(val.item, edit)
    /\ val' = [val EXCEPT !.item = ApplyEdit(val.item, edit), !.edits = Append(@, edit)]
    /\ UNCHANGED <<dbVars, streamVars, waiting, threads, job>>

\* errors := validator.ValidateItem(&item, server, 0)
Validate ==
    /\ val # ValIdle
    /\ ~val.done
    /\ val' = [val EXCEPT !.done = TRUE, !.errors = ValidateItem(val.item, val.server)]
    /\ UNCHANGED <<dbVars, streamVars, waiting, threads, job>>

NextValidate ==
    \/ \E item \in BaseItems, server \in Servers : TakeItem(item, server)
    \/ SetField(Edit("typeId", 0, ""))
    \/ \E a \in Amounts : SetField(Edit("amount", 0, a))
    \/ \E i \in 1..2, t \in EnchantTypes : SetField(Edit("enchantment.type", i, t))
    \/ \E i \in 1..2, l \in EnchantLevels : SetField(Edit("enchantment.level", i, l))
    \/ \E e \in AddedEnchants : SetField(Edit("enchantments", 0, e))
    \/ \E d \in Damages : SetField(Edit("durability.damage", 0, d))
    \/ \E m \in MaxDurabilities : SetField(Edit("durability.maxDurability", 0, m))
    \/ \E v \in NotNumbers : SetField(Edit("durability.maxDurability (not a number)", 0, v))
    \/ \E l \in Lores : SetField(Edit("lore", 0, l))
    \/ \E c \in Contents : SetField(Edit("shulker_contents", 0, c))
    \/ Validate

SpecValidate == InitEmpty /\ [][NextValidate]_vars

\* -------------------------------------------------------------------------
\* ValidateInventory (validator.go:209-262) and the labels of the errors
\* -------------------------------------------------------------------------
\* ValidationError. Path stands for the "Shulker slot %d: " prefixes of the
\* Message, outermost first.
ValidationError(errorType, itemIndex) ==
    [ErrorType |-> errorType, ItemIndex |-> itemIndex, Path |-> <<>>,
     Player |-> "", Server |-> ""]

\* Mutant: a nested error keeps its message.
Relabel_none(itemError, i) == itemError

\* itemError.Message = fmt.Sprintf("Shulker slot %d: %s", i, itemError.Message)
Relabel(itemError, i) == [itemError EXCEPT !.Path = <<i>> \o @]

RECURSIVE ValidateItemAt(_, _, _)
RECURSIVE ValidateShulkerAt(_, _, _, _)

\* validateShulkerContents with its parentIndex (validator.go:511-548); i
\* counts from 1, Go's index is i - 1.
ValidateShulkerAt(contents, i, server, parentIndex) ==
    IF i > Len(contents) THEN <<>>
    ELSE (CASE contents[i].kind = "null" -> <<>>
            [] contents[i].kind = "junk" ->
                  <<[ValidationError("invalid_shulker_content", parentIndex)
                        EXCEPT !.Path = <<i - 1>>]>>
            [] OTHER ->
                  LET itemErrors == ValidateItemAt(contents[i], server, parentIndex)
                  IN  [k \in 1..Len(itemErrors) |-> Relabel(itemErrors[k], i - 1)])
         \o ValidateShulkerAt(contents, i + 1, server, parentIndex)

\* ValidateItem with its itemIndex (validator.go:265-322).
ValidateItemAt(item, server, itemIndex) ==
    IF item.typeId = "" THEN <<ValidationError("missing_type", itemIndex)>>
    ELSE LET own == ItemChecks([item EXCEPT !.shulker = <<>>], server)
         IN  [k \in 1..Len(own) |-> ValidationError(own[k], itemIndex)]
             \o (IF Len(item.shulker) > 0
                 THEN ValidateShulkerAt(item.shulker, 1, server, itemIndex) ELSE <<>>)

RECURSIVE ValidateSlotsFrom(_, _, _, _)
\* The loop of ValidateInventory (validator.go:222-259).
ValidateSlotsFrom(inventory, i, server, player) ==
    IF i > Len(inventory) THEN <<>>
    ELSE (CASE inventory[i].kind = "null" -> <<>>
            [] inventory[i].kind = "junk" ->
                  <<[ValidationError("unparseable_item", i - 1)
                        EXCEPT !.Player = player, !.Server = server]>>
            [] OTHER ->
                  LET itemErrors == ValidateItemAt(inventory[i], server, i - 1)
                  IN  [k \in 1..Len(itemErrors) |->
                          [itemErrors[k] EXCEPT !.Player = player, !.Server = server]])
         \o ValidateSlotsFrom(inventory, i + 1, server, player)

\* Mutant: the loop ends at the first slot that is no item object.
ValidateInventory_stopAtUnparseable(inventoryData, server, player) ==
    IF inventoryData.kind # "json"
    THEN <<[ValidationError("invalid_inventory", 0 - 1)
               EXCEPT !.Player = player, !.Server = server]>>
    ELSE LET slots == inventoryData.slots
             bad == {i \in 1..Len(slots) : slots[i].kind = "junk"}
             upTo == IF bad = {} THEN Len(slots)
                     ELSE CHOOSE i \in bad : \A j \in bad : i <= j
         IN  ValidateSlotsFrom(SubSeq(slots, 1, upTo), 1, server, player)

ValidateInventory(inventoryData, server, player) ==
    IF inventoryData.kind # "json"
    THEN <<[ValidationError("invalid_inventory", 0 - 1)
               EXCEPT !.Player = player, !.Server = server]>>
    ELSE ValidateSlotsFrom(inventoryData.slots, 1, server, player)

\* -------------------------------------------------------------------------
\* Specification of ValidateInventory: an inventory is put together slot by
\* slot, or is bytes that are no JSON list, and is validated for a player and
\* a claimed server.
\* -------------------------------------------------------------------------
\* A stack of s2 that is too large.
IllegalDiamonds == ValItem(Diamond, 65, <<>>, NoDurability, <<OriginLine("s2")>>, <<>>)
\* A container of s1.
Box(contents) == ValItem(Custom, 1, <<>>, NoDurability, <<OriginLine("s1")>>, contents)
\* A container in a container, and a container in a container in a container.
NestedBox == Box(<<Null, Box(<<Junk, IllegalDiamonds, LegalDiamonds>>)>>)
DeepBox == Box(<<Box(<<Box(<<IllegalDiamonds>>)>>)>>)
\* A container without type, whose contents are illegal.
TypelessBox == ValItem("", 1, <<>>, NoDurability, <<OriginLine("s1")>>, <<IllegalDiamonds>>)
\* A container of s1 whose JSON object holds its contents under the key
\* "shulkerContents", as the item of validator.go:1211-1222 does:
\* Item.UnmarshalJSON (database.go:105-108) reads "shulker_contents" only, so
\* ShulkerContents stays empty and the key goes to Extra.
CamelBox(contents) ==
    [kind |-> "item", typeId |-> Custom, amount |-> 1, enchantments |-> <<>>,
     durability |-> NoDurability, lore |-> <<OriginLine("s1")>>, shulker |-> <<>>,
     shulkerContents |-> contents]
\* The item of the test "nested shulker validation" (validator.go:1200-1224):
\* a stack that is too large, and a container holding an item of amount 0.
EmptyStack == ValItem(Diamond, 0, <<>>, NoDurability, <<OriginLine("s1")>>, <<>>)
TestBox == Box(<<IllegalDiamonds, CamelBox(<<EmptyStack>>)>>)
InventorySlots ==
    {Null, Junk, LegalDiamonds, IllegalDiamonds, NestedBox, DeepBox, Box(<<TypelessBox>>),
     TestBox}

JobInventory(data, server, player) ==
    [pc |-> "taken", data |-> data, server |-> server, player |-> player, errors |-> <<>>]

\* The caller holds a JSON list.
TakeList(server, player) ==
    /\ job.pc = "idle"
    /\ job' = JobInventory(JsonInv(<<>>), server, player)
    /\ UNCHANGED <<dbVars, streamVars, waiting, threads, val>>

\* The caller holds bytes that are no JSON list.
TakeBytes(server, player) ==
    /\ job.pc = "idle"
    /\ job' = JobInventory(InvRaw, server, player)
    /\ UNCHANGED <<dbVars, streamVars, waiting, threads, val>>

AddSlot(slot) ==
    /\ job.pc = "taken"
    /\ job.data.kind = "json"
    /\ Len(job.data.slots) < MaxSlots
    /\ job' = [job EXCEPT !.data.slots = Append(@, slot)]
    /\ UNCHANGED <<dbVars, streamVars, waiting, threads, val>>

\* errors := validator.ValidateInventory(data, server, player)
CallValidateInventory ==
    /\ job.pc = "taken"
    /\ job' = [job EXCEPT !.pc = "done",
                          !.errors = ValidateInventory(job.data, job.server, job.player)]
    /\ UNCHANGED <<dbVars, streamVars, waiting, threads, val>>

NextInventory ==
    \/ \E server \in Servers, player \in Players : TakeList(server, player)
    \/ \E server \in Servers, player \in Players : TakeBytes(server, player)
    \/ \E slot \in InventorySlots : AddSlot(slot)
    \/ CallValidateInventory

SpecInventory == InitEmpty /\ [][NextInventory]_vars

\* -------------------------------------------------------------------------
\* Specification of the cleaner: an inventory is put together slot by slot,
\* or is bytes that are no JSON list, and cleanInventoryContents is called on
\* it for a server.
\* -------------------------------------------------------------------------
\* Items whose origin line carries the timestamp, one of them with a key
\* Item does not know.
SwordOf(s) == Item("sword", <<StampedOriginLine(s)>>, <<>>, FALSE)
BreadOf(s) == Item("bread", <<TextLine, StampedOriginLine(s)>>, <<>>, TRUE)
\* A container of s2 holding a sword of s1, an empty slot, bread of s2 and a
\* container of s2 that holds bread of s1, a sword of s2 and a slot that is
\* no item object.
NestedChest ==
    Item("chest", <<StampedOriginLine("s2")>>,
         << SwordOf("s1"), Null, BreadOf("s2"),
            Item("chest", <<StampedOriginLine("s2")>>,
                 <<BreadOf("s1"), SwordOf("s2"), Junk>>, FALSE) >>,
         FALSE)
\* Coal of s1 whose origin line has no timestamp.
PlainCoal == Item("coal", <<OriginLine("s1")>>, <<>>, FALSE)
CleanerSlots == {Null, Junk, SwordOf("s1"), BreadOf("s2"), PlainCoal, NestedChest}

JobClean(data, server) ==
    [pc |-> "taken", data |-> data, server |-> server, out |-> data, modified |-> FALSE]

TakeDirtyList(server) ==
    /\ job.pc = "idle"
    /\ job' = JobClean(JsonInv(<<>>), server)
    /\ UNCHANGED <<dbVars, streamVars, waiting, threads, val>>

TakeDirtyBytes(server) ==
    /\ job.pc = "idle"
    /\ job' = JobClean(InvRaw, server)
    /\ UNCHANGED <<dbVars, streamVars, waiting, threads, val>>

AddDirtySlot(slot) ==
    /\ job.pc = "taken"
    /\ job.data.kind = "json"
    /\ Len(job.data.slots) < MaxSlots
    /\ job' = [job EXCEPT !.data.slots = Append(@, slot), !.out.slots = Append(@, slot)]
    /\ UNCHANGED <<dbVars, streamVars, waiting, threads, val>>

\* cleanedInventory, modified := db.cleanInventoryContents(data, server)
CallClean ==
    /\ job.pc = "taken"
    /\ LET r == cleanInventoryContents(job.data, job.server)
       IN  job' = [job EXCEPT !.pc = "done", !.out = r.data, !.modified = r.modified]
    /\ UNCHANGED <<dbVars, streamVars, waiting, threads, val>>

NextClean ==
    \/ \E server \in Servers : TakeDirtyList(server)
    \/ \E server \in Servers : TakeDirtyBytes(server)
    \/ \E slot \in CleanerSlots : AddDirtySlot(slot)
    \/ CallClean

SpecClean == InitEmpty /\ [][NextClean]_vars

\* -------------------------------------------------------------------------
\* Specification of a Delete called again with the same arguments right
\* after it returned: Puts fill the store, then Delete, then Delete.
\* -------------------------------------------------------------------------
\* The caller's position: the arguments of its Delete and the store before it.
JobRepeat(pc, server, force, before) ==
    [pc |-> pc, server |-> server, force |-> force, before |-> before]

RepeatPut(player, inventory, server) ==
    /\ job.pc = "idle"
    /\ Put(player, inventory, server)
    /\ UNCHANGED callVars

\* db.Delete(server, force), first call.
FirstDelete(server, force) ==
    /\ job.pc = "idle"
    /\ ~closed
    /\ DeleteBegin(server, force)
    /\ job' = JobRepeat("first", server, force, store)
    /\ UNCHANGED <<waiting, threads, val>>

FirstReturn ==
    /\ job.pc = "first"
    /\ DeleteEnd
    /\ job' = [job EXCEPT !.pc = "returned"]
    /\ UNCHANGED <<waiting, threads, val>>

\* db.Delete(server, force) again: lock, closed check and iterator
\* (database.go:352-361).
SecondDelete ==
    /\ job.pc = "returned"
    /\ LockFree
    /\ ~closed
    /\ del' = [pc |-> "scan", server |-> job.server, force |-> job.force,
               snap |-> store, iter |-> IterKeys(store)]
    /\ job' = [job EXCEPT !.pc = "second"]
    /\ UNCHANGED <<store, changeLog, closed, now, res, puts, removed, deletes, run,
                   streamVars, waiting, threads, val>>

SecondReturn ==
    /\ job.pc = "second"
    /\ DeleteEnd
    /\ job' = [job EXCEPT !.pc = "done"]
    /\ UNCHANGED <<waiting, threads, val>>

NextRepeat ==
    \/ \E p \in Players, inv \in Inventories, s \in Servers : RepeatPut(p, inv, s)
    \/ \E s \in Servers, force \in BOOLEAN : FirstDelete(s, force)
    \/ DeleteStep /\ UNCHANGED callVars
    \/ FirstReturn
    \/ SecondDelete
    \/ SecondReturn

SpecRepeat == InitEmpty /\ [][NextRepeat]_vars

\* -------------------------------------------------------------------------
\* EnhancedDB (inventories_test.go:610-703): Delete followed by a cleaning
\* pass over what is left, on an engine that does not fail.
\* -------------------------------------------------------------------------
\* originRegex ^Origin:\s+(\S+)$ : "Origin: <server>" and nothing after it.
originRegex(line) ==
    IF line.kind = "origin" /\ ~line.stamp THEN line.server ELSE NoMatch

\* ParseOriginFromLore (inventories_test.go:482-493): the first matching line.
RECURSIVE ParseOriginFromLore(_)
ParseOriginFromLore(lore) ==
    IF lore = <<>> THEN NoMatch
    ELSE IF originRegex(Head(lore)) # NoMatch THEN originRegex(Head(lore))
    ELSE ParseOriginFromLore(Tail(lore))

\* HasOriginFromServer of inventories_test.go:496-516, on the item as a map.
MapHasOriginFromServer(item, serverName) ==
    /\ ParseOriginFromLore(item.lore) # NoMatch
    /\ ParseOriginFromLore(item.lore) = serverName

\* cleanShulkerContents of inventories_test.go:574-607: a removed item is
\* replaced by nil in place; containers are cleaned recursively. The loop of
\* CleanInventoryFromServer (inventories_test.go:531-558) is the same loop.
RECURSIVE CleanShulkerSlots(_, _)
CleanShulkerSlots(shulkerItems, serverName) ==
    IF shulkerItems = <<>> THEN [items |-> <<>>, modified |-> FALSE]
    ELSE LET item == Head(shulkerItems)
             rest == CleanShulkerSlots(Tail(shulkerItems), serverName)
         IN  IF item.kind # "item"
             THEN [items |-> <<item>> \o rest.items, modified |-> rest.modified]
             ELSE IF MapHasOriginFromServer(item, serverName)
             THEN [items |-> <<Null>> \o rest.items, modified |-> TRUE]
             ELSE LET nested == CleanShulkerSlots(item.shulker, serverName)
                  IN  IF nested.modified
                      THEN [items |-> <<[item EXCEPT !.shulker = nested.items]>> \o rest.items,
                            modified |-> TRUE]
                      ELSE [items |-> <<item>> \o rest.items, modified |-> rest.modified]

\* CleanInventoryFromServer (inventories_test.go:519-571): empty bytes are
\* returned as they are, bytes that are no JSON list give an error.
CleanInventoryFromServer(inventoryJSON, serverName) ==
    IF inventoryJSON = RawBytes("")
    THEN [data |-> inventoryJSON, modified |-> FALSE, err |-> FALSE]
    ELSE IF inventoryJSON.kind # "json"
    THEN [data |-> inventoryJSON, modified |-> FALSE, err |-> TRUE]
    ELSE LET r == CleanShulkerSlots(inventoryJSON.slots, serverName)
         IN  IF r.modified
             THEN [data |-> JsonInv(r.items), modified |-> TRUE, err |-> FALSE]
             ELSE [data |-> inventoryJSON, modified |-> FALSE, err |-> FALSE]

\* The entries of a record after the loop at inventories_test.go:654-663.
CleanedEntries(entries, serverName) ==
    [i \in 1..Len(entries) |->
        LET c == CleanInventoryFromServer(entries[i].inventory, serverName)
        IN  IF ~c.err /\ c.modified THEN [entries[i] EXCEPT !.inventory = c.data]
            ELSE entries[i]]

\* The updates collected by cleanAllInventories (inventories_test.go:644-680):
\* the records whose encoding changed, in the iterator's order.
RECURSIVE CollectUpdates(_, _, _)
CollectUpdates(keys, snap, serverName) ==
    IF keys = <<>> THEN <<>>
    ELSE LET player == Head(keys)
             rest == CollectUpdates(Tail(keys), snap, serverName)
         IN  IF snap[player].kind # "record" THEN rest
             ELSE LET cleaned == CleanedEntries(snap[player].entries, serverName)
                  IN  IF cleaned # snap[player].entries
                      THEN <<[player |-> player, entries |-> cleaned]>> \o rest
                      ELSE rest

JobEnhanced(pc, server, before) ==
    [pc |-> pc, server |-> server, before |-> before, updates |-> <<>>]

EnhancedPut(player, inventory, server) ==
    /\ job.pc = "idle"
    /\ Put(player, inventory, server)
    /\ UNCHANGED callVars

\* edb.DB.Delete(serverName, force) (inventories_test.go:622)
EnhancedDeleteBegin(server, force) ==
    /\ job.pc = "idle"
    /\ DeleteBegin(server, force)
    /\ job' = JobEnhanced("delete", server, store)
    /\ UNCHANGED <<waiting, threads, val>>

EnhancedDeleteEnd ==
    /\ job.pc = "delete"
    /\ DeleteEnd
    /\ job' = [job EXCEPT !.pc = "collect"]
    /\ UNCHANGED <<waiting, threads, val>>

\* cleanAllInventories, the loop that collects (inventories_test.go:632-684)
cleanAllInventoriesCollect ==
    /\ job.pc = "collect"
    /\ job' = [job EXCEPT !.pc = "apply",
                          !.updates = CollectUpdates(IterKeys(store), store, job.server)]
    /\ UNCHANGED <<dbVars, streamVars, waiting, threads, val>>

\* cleanAllInventories, one round of the loop that applies
\* (inventories_test.go:685-700): Put of the record's first entry.
cleanAllInventoriesApply ==
    /\ job.pc = "apply"
    /\ job.updates # <<>>
    /\ LET update == Head(job.updates)
       IN  IF Len(update.entries) > 0
           THEN Put(update.player, update.entries[1].inventory, update.entries[1].server)
           ELSE UNCHANGED <<dbVars, streamVars>>
    /\ job' = [job EXCEPT !.updates = Tail(@)]
    /\ UNCHANGED <<waiting, threads, val>>

\* cleanAllInventories returns nil (inventories_test.go:702)
DeleteWithInventoryCleanupReturn ==
    /\ job.pc = "apply"
    /\ job.updates = <<>>
    /\ job' = [job EXCEPT !.pc = "done"]
    /\ res' = Returned(Result("DeleteWithInventoryCleanup", "", ErrNone, NoVal))
    /\ UNCHANGED <<store, changeLog, closed, now, del, puts, removed, deletes, run,
                   streamVars, waiting, threads, val>>

NextEnhanced ==
    \/ \E p \in Players, inv \in Inventories, s \in Servers : EnhancedPut(p, inv, s)
    \/ \E s \in Servers, force \in BOOLEAN : EnhancedDeleteBegin(s, force)
    \/ DeleteStep /\ UNCHANGED callVars
    \/ EnhancedDeleteEnd
    \/ cleanAllInventoriesCollect
    \/ cleanAllInventoriesApply
    \/ DeleteWithInventoryCleanupReturn

SpecEnhanced == InitEmpty /\ [][NextEnhanced]_vars

\* -------------------------------------------------------------------------
\* ItemValidator.AddOriginToItem (validator.go:552-571), called twice on the
\* same item.
\* -------------------------------------------------------------------------
\* Mutant: the line is appended whether or not the item has an origin.
AddOriginToItem_always(item, server) ==
    [item |-> [item EXCEPT !.lore = Append(@, OriginLine(server))], modified |-> TRUE]

\* The item after the call and the value returned. originPattern is the
\* validator's ^Origin:\s+(.+)$ .
AddOriginToItem(item, server) ==
    LET hasOrigin == \E i \in 1..Len(item.lore) : ValidatorOriginMatch(item.lore[i]) # NoMatch
    IN  IF ~hasOrigin
        THEN [item |-> [item EXCEPT !.lore = Append(@, OriginLine(server))], modified |-> TRUE]
        ELSE [item |-> item, modified |-> FALSE]

\* Server names a caller may pass: the empty string is one.
OriginServers == Servers \cup {""}
\* Lines of lore: text, "Origin: s1", "Origin: s2", "Origin: s1 <timestamp>"
\* and "Origin: " (what AddOriginToItem writes for the empty name).
LoreLines == {TextLine, OriginLine("s1"), OriginLine("s2"), StampedOriginLine("s1"), OriginLine("")}

JobOrigin(item, server) ==
    [pc |-> "taken", item |-> item, server |-> server,
     once |-> item, modified |-> FALSE, twice |-> item, modifiedAgain |-> FALSE]

TakeBareItem(server) ==
    /\ job.pc = "idle"
    /\ job' = JobOrigin(Item("diamond", <<>>, <<>>, FALSE), server)
    /\ UNCHANGED <<dbVars, streamVars, waiting, threads, val>>

AddLoreLine(line) ==
    /\ job.pc = "taken"
    /\ Len(job.item.lore) < MaxLore
    /\ job' = JobOrigin([job.item EXCEPT !.lore = Append(@, line)], job.server)
    /\ UNCHANGED <<dbVars, streamVars, waiting, threads, val>>

\* modified := validator.AddOriginToItem(&item, server)
CallAddOrigin ==
    /\ job.pc = "taken"
    /\ LET r == AddOriginToItem(job.item, job.server)
       IN  job' = [job EXCEPT !.pc = "once", !.once = r.item, !.modified = r.modified,
                              !.twice = r.item]
    /\ UNCHANGED <<dbVars, streamVars, waiting, threads, val>>

\* The same call on the item the first call left.
CallAddOriginAgain ==
    /\ job.pc = "once"
    /\ LET r == AddOriginToItem(job.once, job.server)
       IN  job' = [job EXCEPT !.pc = "twice", !.twice = r.item, !.modifiedAgain = r.modified]
    /\ UNCHANGED <<dbVars, streamVars, waiting, threads, val>>

NextOrigin ==
    \/ \E server \in OriginServers : TakeBareItem(server)
    \/ \E line \in LoreLines : AddLoreLine(line)
    \/ CallAddOrigin
    \/ CallAddOriginAgain

SpecOrigin == InitEmpty /\ [][NextOrigin]_vars

\* =========================================================================
\* Properties
\* =========================================================================
\* Definitions the properties are stated with; they read the stored records
\* and lore, not the operators of the code above.
\* How many entries of `entries` satisfy Test.
CountEntries(entries, Test(_)) == Len(SelectSeq(entries, Test))

\* b holds the entries of a, in some order.
SameEntries(a, b) ==
    /\ Len(a) = Len(b)
    /\ \E f \in IndexPerms(Len(a)) : \A i \in 1..Len(a) : a[i] = b[f[i]]

\* An origin line naming the server, with or without a timestamp after it.
NamesOrigin(item, server) ==
    \E i \in 1..Len(item.lore) :
        item.lore[i].kind = "origin" /\ item.lore[i].server = server

\* Some item of the slots, at any depth, has an origin line naming the server.
RECURSIVE HoldsOriginItem(_, _)
HoldsOriginItem(slots, server) ==
    \E i \in 1..Len(slots) :
        /\ slots[i].kind = "item"
        /\ \/ NamesOrigin(slots[i], server)
           \/ HoldsOriginItem(slots[i].shulker, server)

\* Every item of `before` without an origin line naming the server is still
\* in `after`, with its type and lore, and so are such items inside it.
RECURSIVE OthersSurvive(_, _, _)
OthersSurvive(before, after, server) ==
    \A i \in 1..Len(before) :
        (before[i].kind = "item" /\ ~NamesOrigin(before[i], server)) =>
            \E j \in 1..Len(after) :
                /\ after[j].kind = "item"
                /\ after[j].typeId = before[i].typeId
                /\ after[j].lore = before[i].lore
                /\ OthersSurvive(before[i].shulker, after[j].shulker, server)

\* The latest timestamp of the server's entries, 0 when it has none.
LastTimestampOf(entries, server) ==
    LET ts == {entries[i].timestamp : i \in {j \in 1..Len(entries) : entries[j].server = server}}
    IN  IF ts = {} THEN 0 ELSE CHOOSE m \in ts : \A x \in ts : x <= m

\* The scan of a Delete has visited every key: only the trim and the return
\* of ok are left (DeleteEnd).
ScanDone == del.pc = "scan" /\ del.iter = <<>>

\* The step in which Delete(server, force) returns ok.
DeleteReturnsOk(force) ==
    /\ ScanDone
    /\ del.force = force
    /\ del'.pc = "idle"
    /\ res'.op = "Delete"
    /\ res'.err = ErrNone

\* The step in which Put(player, ...) returns ok.
PutReturnsOk(player) ==
    /\ puts'[player] = puts[player] + 1
    /\ res'.op = "Put"
    /\ res'.err = ErrNone

\* ---- C1 ----
\* C1: latest-wins. For a player whose successful Puts so far had strictly
\* increasing entry timestamps, with no Delete so far, Get returns the bytes
\* of the last Put and GetPlayerInventories()[0] is the last Put's entry,
\* with its server.
C1_LatestWins ==
    \A p \in Players :
        (~WriterHolds /\ ~closed /\ run[p].ok /\ run[p].last # NoEntry) =>
            /\ GetResult(p).err = ErrNone
            /\ GetResult(p).val = BytesVal(run[p].last.inventory)
            /\ GetPlayerInventoriesResult(p).err = ErrNone
            /\ GetPlayerInventoriesResult(p).val.entries[1] = run[p].last
            /\ Len(GetPlayerInventoriesResult(p).val.entries) = puts[p]

\* Three Puts for one player at increasing instants, the last with other
\* bytes and another server than the one before.
C1_Witness ==
    \E p \in Players :
        /\ run[p].ok
        /\ puts[p] = 3
        /\ store[p].entries[1].inventory # store[p].entries[2].inventory
        /\ store[p].entries[1].server # store[p].entries[2].server

\* ---- C2 ----
\* The entries of `pre` that are not the server's.
OtherServerEntries(entries, server) == SelectSeq(entries, LAMBDA e : e.server # server)

C3_Force ==
    [][DeleteReturnsOk(TRUE) =>
         \A p \in Players :
            LET pre == del.snap[p].entries
                post == store'[p].entries
                last == LastTimestampOf(pre, del.server)
            IN  /\ \A i \in 1..Len(post) : post[i].server # del.server
                /\ last # 0 => \A i \in 1..Len(post) : post[i].timestamp <= last
                /\ \A s \in Servers \ {del.server}, t \in 1..MaxTime :
                      (last = 0 \/ t < last) =>
                         CountEntries(post, LAMBDA e : e.server = s /\ e.timestamp = t)
                           = CountEntries(pre, LAMBDA e : e.server = s /\ e.timestamp = t)
                /\ last = 0 => Len(post) = Len(pre)]_vars

\* A forced Delete has scanned a record with an entry of another server
\* before the latest entry of S and one after it, and kept the older one.
C3_Witness ==
    /\ ScanDone
    /\ del.force
    /\ \E p \in Players :
          LET pre == del.snap[p].entries
              last == LastTimestampOf(pre, del.server)
          IN  /\ last # 0
              /\ \E i \in 1..Len(pre) : pre[i].server # del.server /\ pre[i].timestamp < last
              /\ \E i \in 1..Len(pre) : pre[i].server # del.server /\ pre[i].timestamp > last
              /\ Len(store[p].entries) = 1

\* ---- C4 ----
\* C4 as claimed: after Delete(S, false) returns ok, no kept entry of any
\* player holds an item, at any depth, whose lore has the origin line of S;
\* a container of another server that held such an item is still there.
C4_Cascade ==
    [][DeleteReturnsOk(FALSE) =>
         \A p \in Players :
            LET others == OtherServerEntries(del.snap[p].entries, del.server)
                kept == store'[p].entries
            IN  /\ \A i \in 1..Len(kept) :
                      ~HoldsOriginItem(kept[i].inventory.slots, del.server)
                /\ Len(kept) = Len(others)
                /\ \E f \in IndexPerms(Len(others)) :
                      \A i \in 1..Len(others) :
                         OthersSurvive(others[i].inventory.slots,
                                       kept[f[i]].inventory.slots, del.server)]_vars

\* ---- C5 ----
\* C5: whenever a reader can take the lock, every player's history is ordered
\* newest first and has as many entries as Puts succeeded for the player
\* minus the entries Delete dropped.
C5_HistoryOrdering ==
    \A p \in Players :
        ~WriterHolds =>
            LET es == store[p].entries
            IN  /\ \A i, j \in 1..Len(es) : i < j => es[i].timestamp >= es[j].timestamp
                /\ Len(es) = puts[p] - removed[p]
                /\ (store[p].kind = "record" /\ ~closed) =>
                      GetPlayerInventoriesResult(p).val = EntriesVal(es)

\* A history of two entries at different instants after a Delete dropped one.
C5_Witness ==
    \E p \in Players :
        /\ ~WriterHolds
        /\ puts[p] = 3
        /\ removed[p] = 1
        /\ Len(store[p].entries) = 2
        /\ store[p].entries[1].timestamp > store[p].entries[2].timestamp

\* ---- C6 ----
\* C6: a Put that returns ok adds exactly one entry to the player's record,
\* keeps every entry the record had, and leaves the other players' values
\* as they were.
C6_PutAppendOnly ==
    [][\A p \in Players :
          PutReturnsOk(p) =>
             /\ Len(store'[p].entries) = Len(store[p].entries) + 1
             /\ \E k \in 1..Len(store'[p].entries) :
                   SameEntries(store[p].entries,
                               [i \in 1..Len(store[p].entries) |->
                                   store'[p].entries[IF i < k THEN i ELSE i + 1]])
             /\ \A q \in Players \ {p} : store'[q] = store[q]]_vars

\* A record of two entries beside another player's record.
C6_Witness ==
    \E p, q \in Players :
        /\ p # q
        /\ res.op = "Put"
        /\ res.err = ErrNone
        /\ deletes = 0
        /\ Len(store[p].entries) = 2
        /\ Len(store[q].entries) = 1

\* ---- C7 ----
\* Delete's filter drops every entry of the record.
AllEntriesDropped(entries, server, force) ==
    LET last == LastTimestampOf(entries, server)
    IN  \A i \in 1..Len(entries) :
           \/ entries[i].server = server
           \/ force /\ last # 0 /\ entries[i].timestamp > last

\* C7: a key leaves the store exactly in the round of a Delete whose filter
\* drops every entry of its record; for a key that is not in the store Get
\* and GetPlayerInventories return NotFound; no stored record has an empty
\* entry list.
C7_KeyRemoval ==
    [][/\ \A p \in Players :
            /\ (store[p].kind # "none" /\ store'[p].kind = "none") =>
                  /\ del.pc = "scan"
                  /\ del.iter # <<>>
                  /\ Head(del.iter) = p
                  /\ AllEntriesDropped(del.snap[p].entries, del.server, del.force)
            /\ ( /\ del.pc = "scan"
                 /\ del'.pc = "scan"
                 /\ del.iter # <<>>
                 /\ Head(del.iter) = p
                 /\ del.snap[p].kind = "record"
                 /\ AllEntriesDropped(del.snap[p].entries, del.server, del.force) )
                  => store'[p].kind = "none"
            /\ (store'[p].kind = "none" /\ ~closed' /\ ~WriterHolds') =>
                  /\ GetResult(p)'.err = ErrPlayerNotFound
                  /\ GetPlayerInventoriesResult(p)'.err = ErrPlayerNotFound
            /\ store'[p].kind = "record" => Len(store'[p].entries) > 0]_vars

\* A Delete removed the key of one player and rewrote the record of another.
C7_Witness ==
    /\ ScanDone
    /\ \E p, q \in Players :
          /\ del.snap[p].kind = "record"
          /\ store[p].kind = "none"
          /\ Len(del.snap[p].entries) >= 2
          /\ store[q].kind = "record"
          /\ store[q] # del.snap[q]

\* ---- C8 ----
\* C8: once the store is closed it stays closed, no step changes the stored
\* values or the change log, every Put, Get, Delete and GetPlayerInventories
\* returns the Closed error and every Close returns ok.
C8_ClosedAbsorbing ==
    [][closed =>
          /\ closed'
          /\ store' = store
          /\ changeLog' = changeLog
          /\ res'.op \in {"Put", "Get", "Delete", "GetPlayerInventories", "Close"}
          /\ res'.err = IF res'.op = "Close" THEN ErrNone ELSE ErrClosed]_vars

\* A Get was refused on a closed store that holds records and a change log.
C8_Witness ==
    /\ closed
    /\ res.op = "Get"
    /\ res.err = ErrClosed
    /\ changeLog # <<>>
    /\ \E p \in Players : store[p].kind = "record"

\* ---- C9 ----
\* C9 as claimed: whenever no operation holds the lock the change log has at
\* most LogCap entries, whatever the calls returned; and each step keeps the
\* newest entries of the log in their order, dropping only from its front.
C9_ChangeLogBound ==
    [][/\ LockFree' => Len(changeLog') <= LogCap
       /\ \E k \in 0..Len(changeLog) :
             /\ Len(changeLog') >= Len(changeLog) - k
             /\ SubSeq(changeLog', 1, Len(changeLog) - k)
                   = SubSeq(changeLog, k + 1, Len(changeLog))]_vars

\* ---- C10 ----
\* The stream's task has ended (the channel is closed) with no send dropped
\* and with no Put or Delete writing since StreamAll was called.
QuietStreamDone == stream.pc = "done" /\ stream.quiet /\ stream.dropped = 0

\* The items sent are one pair per key of the store, holding the stored value.
OnePairPerKey ==
    /\ \A p \in Players :
          store[p].kind # "none" =>
             Cardinality({i \in 1..Len(sent) : sent[i].key = p}) = 1
    /\ \A i \in 1..Len(sent) :
          /\ store[sent[i].key].kind # "none"
          /\ sent[i].value = store[sent[i].key]

\* C10 as claimed: a stream that dropped nothing, beside which nothing was
\* written, has sent exactly one {key, value} pair for every key of the
\* store, with the stored bytes, when it closes the channel.
C10_SnapshotStream == QuietStreamDone => OnePairPerKey

\* C10, amended: the same, for a store that has not been closed by the time
\* the stream ends.
C10_SnapshotStreamOpen == (QuietStreamDone /\ ~closed) => OnePairPerKey

\* A stream of an open store with two keys ended after sending both pairs.
C10_Witness ==
    /\ QuietStreamDone
    /\ ~closed
    /\ Len(sent) = 2
    /\ sent[1].key # sent[2].key

\* ---- C11 ----
\* The stream reads a change-log entry written after it started, on an open
\* store, with room on the channel.
CatchUpSends ==
    /\ stream.pc = "catchup"
    /\ stream'.pc = "catchup"
    /\ stream.log # <<>>
    /\ stream'.log = Tail(stream.log)
    /\ After(Head(stream.log).timestamp, stream.syncStart)
    /\ CanSend(ch)
    /\ ~closed

\* What the store holds under the key now: its value, or nil without the key.
CurrentValue(player) == IF store[player].kind = "none" THEN NilValue ELSE store[player]

\* C11 as claimed: for every change-log entry stamped after the stream's
\* start the stream sends the player's key with the value stored under it
\* now, and {key, nil} when the key is no longer in the store.
C11_CatchUpCurrent ==
    [][CatchUpSends =>
          sent' = Append(sent, Pair(Head(stream.log).player,
                                    CurrentValue(Head(stream.log).player)))]_vars

\* ---- C12 ----
\* A round of one of the producer's two loops: the snapshot iterator or the
\* change-log range moves to its next element.
ProducerRound ==
    \/ /\ stream.pc = "iter" /\ stream'.pc = "iter"
       /\ stream.iter # <<>> /\ stream'.iter = Tail(stream.iter)
    \/ /\ stream.pc = "catchup" /\ stream'.pc = "catchup"
       /\ stream.log # <<>> /\ stream'.log = Tail(stream.log)

ChannelFull == Len(ch) >= ChanCap

C13_WritersProgress ==
    /\ [](~(WriterHolds /\ ReaderHolds))
    /\ [](waiting # NoCall => <>(waiting = NoCall))

\* A Put was called while the stream held the shared lock with a full
\* channel that the consumer had not read.
C13_Witness ==
    /\ waiting.op = "Put"
    /\ ReaderHolds
    /\ stream.log # <<>>
    /\ Len(ch) = ChanCap

\* ---- C14 ----
\* C14: stream termination. Every stream task that was started reaches its
\* end, where the channel is closed and the shared lock is not held,
\* whatever the consumer, the writers and Close do meanwhile.
C14_StreamTerminates ==
    [](stream.pc # "idle" => <>(stream.pc = "done" /\ ~ReaderHolds))

\* A stream ended on a store that was written to and then closed while it
\* ran, with items dropped and an item left unread on the channel.
C14_Witness ==
    /\ stream.pc = "done"
    /\ stream.dropped > 0
    /\ ~stream.quiet
    /\ closed
    /\ ch # <<>>

\* ---- C15 ----
\* Thread t's Put returns ok in this step.
ThreadPutReturns(t) == threads[t].pc = "read" /\ threads'[t].pc = "idle"

\* C15: a player's record is read-modify-written atomically. With Puts of
\* several threads interleaved step by step and no Delete, each player's
\* record holds exactly one entry per Put that returned ok; the Put that
\* returns adds its entry to the record as it stands at that moment, losing
\* none; and a Get that gets the lock sees the record of the Puts that
\* returned, whole.
C15_AtomicPut ==
    [][/\ \A p \in Players :
             /\ store'[p].kind = "none" => puts'[p] = 0
             /\ store'[p].kind = "record" => Len(store'[p].entries) = puts'[p]
       /\ \A t \in Threads :
             ThreadPutReturns(t) =>
                SameEntries(Append(store[threads[t].player].entries, threads[t].newEntry),
                            store'[threads[t].player].entries)
       /\ \A p \in Players :
             (NoWriterInside /\ puts[p] > 0) =>
                /\ GetPlayerInventoriesResult(p).err = ErrNone
                /\ Len(GetPlayerInventoriesResult(p).val.entries) = puts[p]
                /\ GetResult(p).val = BytesVal(store[p].entries[1].inventory)]_vars

\* Two Puts for one player have returned, one from each server, and the
\* other thread is inside a third Put for the same player, past its read.
C15_Witness ==
    \E p \in Players, t \in Threads :
        /\ puts[p] = 2
        /\ store[p].entries[1].server # store[p].entries[2].server
        /\ threads[t].pc = "read"
        /\ threads[t].player = p
        /\ Len(threads[t].existing) = 2

\* ---- C16 ----
\* The properties of the validator describe items in their own terms, with
\* the tables of the validator as data.
Kinds(errors) == {errors[i] : i \in 1..Len(errors)}

StackLimit(typeId) == IF maxStackSizes(typeId) = 0 THEN 64 ELSE maxStackSizes(typeId)

WellFormedEnchant(e) == e.hasType /\ e.levelOk
KnownEnchant(e) == maxEnchantmentLevels(e.type) > 0
LevelInRange(e) == e.level >= 1 /\ e.level <= maxEnchantmentLevels(e.type)
Exclusive(a, b) ==
    \E k \in 1..Len(incompatibleEnchantments(a)) : incompatibleEnchantments(a)[k] = b

LegalEnchantments(es) ==
    /\ \A i \in 1..Len(es) : WellFormedEnchant(es[i]) /\ KnownEnchant(es[i]) /\ LevelInRange(es[i])
    /\ \A i, j \in 1..Len(es) :
          i # j => es[i].type # es[j].type /\ ~Exclusive(es[i].type, es[j].type)

LegalDurability(d, typeId) ==
    \/ ~d.present
    \/ /\ d.hasDamage => (d.damageOk /\ d.damage >= 0)
       /\ d.hasMax => /\ d.maxOk
                      /\ defaultMaxDurability(typeId) > 0 => d.max = defaultMaxDurability(typeId)
                      /\ d.hasDamage => d.damage <= d.max

OriginLinesOf(lore) == {i \in 1..Len(lore) : lore[i].kind = "origin"}

\* One origin line, and it is "Origin: <server>".
SingleOrigin(lore, server) ==
    /\ Cardinality(OriginLinesOf(lore)) = 1
    /\ \A i \in OriginLinesOf(lore) : lore[i] = OriginLine(server)

RECURSIVE LegalItem(_, _)
LegalItem(item, server) ==
    /\ item.typeId # ""
    /\ item.amount >= 1 /\ item.amount <= StackLimit(item.typeId)
    /\ LegalEnchantments(item.enchantments)
    /\ LegalDurability(item.durability, item.typeId)
    /\ SingleOrigin(item.lore, server)
    /\ \A i \in 1..Len(item.shulker) :
          \/ item.shulker[i] = Null
          \/ item.shulker[i].kind = "item" /\ LegalItem(item.shulker[i], server)

\* The error kind that answers to the field as it was set.
CorrespondingKind(item, edit) ==
    CASE edit.field = "typeId" -> "missing_type"
      [] edit.field = "amount" ->
            IF edit.value <= 0 THEN "invalid_amount" ELSE "stack_too_large"
      [] edit.field = "enchantment.level" -> "invalid_enchantment_level"
      [] edit.field \in {"enchantment.type", "enchantments"} ->
            LET es == item.enchantments
                n == IF edit.field = "enchantments" THEN Len(es) ELSE edit.index
                e == es[n]
            IN  IF ~WellFormedEnchant(e) THEN "invalid_enchantment"
                ELSE IF ~KnownEnchant(e) THEN "unknown_enchantment"
                ELSE IF \E i \in 1..Len(es) : i # n /\ es[i].type = e.type
                THEN "duplicate_enchantment"
                ELSE IF \E i \in 1..Len(es) : i # n /\ Exclusive(es[i].type, e.type)
                THEN "incompatible_enchantments"
                ELSE "invalid_enchantment_level"
      [] edit.field = "durability.damage" ->
            IF edit.value < 0 THEN "negative_durability" ELSE "durability_exceeds_max"
      [] edit.field = "durability.maxDurability" -> "invalid_max_durability"
      [] edit.field = "durability.maxDurability (not a number)" -> "invalid_durability"
      [] OTHER ->
            IF OriginLinesOf(item.lore) = {} THEN "missing_origin" ELSE "wrong_origin"

\* The validator was called on an item that was legal for the claimed server
\* before one of its fields (type, amount, enchantments, durability, lore)
\* was set to a value that is not.
OneFieldIllegal ==
    /\ val.done
    /\ LegalItem(val.base, val.server)
    /\ Len(val.edits) = 1
    /\ val.edits[1].field # "shulker_contents"
    /\ ~LegalItem(val.item, val.server)

\* C16 as claimed: validator round trip. An item that is legal for the
\* claimed server yields no error, and such an item with one field set to an
\* illegal value yields errors of exactly the kind that answers to that
\* field.
C16_RoundTrip ==
    /\ (val.done /\ LegalItem(val.item, val.server)) => val.errors = <<>>
    /\ OneFieldIllegal => Kinds(val.errors) = {CorrespondingKind(val.item, val.edits[1])}

\* ---- C17 ----
\* Some origin line of the lore names a server other than `server`.
NamesOtherServer(lore, server) ==
    \E i \in OriginLinesOf(lore) : lore[i].server # server

\* C17 as claimed: the origin rule. For an item with a type, a lore without
\* an origin line yields missing_origin; a lore with an origin line naming
\* another server than the claimed one yields wrong_origin; a lore that does
\* not hold exactly one origin line yields an origin error; so an item that
\* yields no error carries no origin line of another server.
C17_OriginRule ==
    (val.done /\ val.item.typeId # "") =>
        /\ OriginLinesOf(val.item.lore) = {} => "missing_origin" \in Kinds(val.errors)
        /\ NamesOtherServer(val.item.lore, val.server) => "wrong_origin" \in Kinds(val.errors)
        /\ Cardinality(OriginLinesOf(val.item.lore)) # 1 =>
              Kinds(val.errors) \cap {"missing_origin", "wrong_origin"} # {}
        /\ val.errors = <<>> => ~NamesOtherServer(val.item.lore, val.server)

\* ---- C18 ----
\* A legal item of the same type for the claimed server, to carry one field
\* of the item on its own.
Skeleton(item, server) ==
    ValItem(item.typeId, 1, <<>>, NoDurability, <<OriginLine(server)>>, <<>>)

\* What the stack rule, the origin rule and the contents yield on their own.
StackKinds(item, server) ==
    Kinds(ValidateItem([Skeleton(item, server) EXCEPT !.amount = item.amount], server))
OriginKinds(item, server) ==
    Kinds(ValidateItem([Skeleton(item, server) EXCEPT !.lore = item.lore], server))
ContentsKinds(item, server) ==
    Kinds(ValidateItem([Skeleton(item, server) EXCEPT !.shulker = item.shulker], server))

\* One kind for each enchantment rule that some enchantment of the list
\* breaks.
EnchantmentRuleKinds(es) ==
    {k \in {"invalid_enchantment", "unknown_enchantment", "invalid_enchantment_level",
            "duplicate_enchantment", "incompatible_enchantments"} :
        \/ k = "invalid_enchantment" /\ \E i \in 1..Len(es) : ~WellFormedEnchant(es[i])
        \/ k = "unknown_enchantment"
              /\ \E i \in 1..Len(es) : WellFormedEnchant(es[i]) /\ ~KnownEnchant(es[i])
        \/ k = "invalid_enchantment_level"
              /\ \E i \in 1..Len(es) :
                    WellFormedEnchant(es[i]) /\ KnownEnchant(es[i]) /\ ~LevelInRange(es[i])
        \/ k = "duplicate_enchantment"
              /\ \E i, j \in 1..Len(es) :
                    i # j /\ es[i].hasType /\ es[j].hasType /\ es[i].type = es[j].type
        \/ k = "incompatible_enchantments"
              /\ \E i, j \in 1..Len(es) :
                    i # j /\ es[i].hasType /\ es[j].hasType /\ Exclusive(es[i].type, es[j].type)}

\* One kind for each durability rule that the map breaks.
DurabilityRuleKinds(d, typeId) ==
    {k \in {"invalid_durability", "negative_durability", "invalid_max_durability",
            "durability_exceeds_max"} :
        /\ d.present
        /\ \/ k = "invalid_durability"
                 /\ ((d.hasDamage /\ ~d.damageOk) \/ (d.hasMax /\ ~d.maxOk))
           \/ k = "negative_durability" /\ d.hasDamage /\ d.damageOk /\ d.damage < 0
           \/ k = "invalid_max_durability"
                 /\ d.hasMax /\ d.maxOk
                 /\ defaultMaxDurability(typeId) > 0 /\ d.max # defaultMaxDurability(typeId)
           \/ k = "durability_exceeds_max"
                 /\ d.hasMax /\ d.maxOk /\ d.damageOk
                 /\ (IF d.hasDamage THEN d.damage ELSE 0) > d.max}

\* C18 as claimed: the rules are independent. For an item with a type the
\* kinds returned are the union of what each violation yields on its own:
\* the stack rule, each enchantment rule, each durability rule, the origin
\* rule and the nested contents.
C18_RulesIndependent ==
    (val.done /\ val.item.typeId # "") =>
        Kinds(val.errors) =
            StackKinds(val.item, val.server)
            \cup EnchantmentRuleKinds(val.item.enchantments)
            \cup DurabilityRuleKinds(val.item.durability, val.item.typeId)
            \cup OriginKinds(val.item, val.server)
            \cup ContentsKinds(val.item, val.server)


\* What the enchantment check reports: a malformed or unknown enchantment is
\* reported and then skipped (validator.go:333-363), so repetition and
\* exclusion are judged among the well-formed known enchantments only.
EnchantmentKindsReported(es) ==
    LET judged == {i \in 1..Len(es) : WellFormedEnchant(es[i]) /\ KnownEnchant(es[i])}
    IN  {k \in EnchantmentRuleKinds(es) :
            /\ k = "duplicate_enchantment" =>
                  \E i, j \in judged : i # j /\ es[i].type = es[j].type
            /\ k = "incompatible_enchantments" =>
                  \E i, j \in judged : i # j /\ Exclusive(es[i].type, es[j].type)}

\* What the durability check reports: a value that is not a number is
\* reported alone (validator.go:414-441).
DurabilityKindsReported(d, typeId) ==
    IF "invalid_durability" \in DurabilityRuleKinds(d, typeId)
    THEN {"invalid_durability"}
    ELSE DurabilityRuleKinds(d, typeId)

\* C18 (amended): for an item with a type the kinds returned are the union of
\* what the stack rule, each enchantment rule, each durability rule, the
\* origin rule and the nested contents yield on their own, except that a
\* malformed or unknown enchantment takes no part in the repetition and
\* exclusion rules and a non-numeric durability value hides the other
\* durability rules.
C18_RulesIndependentUnmasked ==
    (val.done /\ val.item.typeId # "") =>
        Kinds(val.errors) =
            StackKinds(val.item, val.server)
            \cup EnchantmentKindsReported(val.item.enchantments)
            \cup DurabilityKindsReported(val.item.durability, val.item.typeId)
            \cup OriginKinds(val.item, val.server)
            \cup ContentsKinds(val.item, val.server)

\* An item with a type was validated and broke rules of three kinds, two of
\* them enchantment rules.
C18_Witness ==
    /\ val.done
    /\ val.item.typeId # ""
    /\ Cardinality(Kinds(val.errors)) >= 3
    /\ Cardinality(Kinds(val.errors) \cap EnchantmentRuleKinds(val.item.enchantments)) >= 2


\* ---- C19 ----
\* C19: an item with no type yields exactly one error, missing_type, whatever
\* its amount, enchantments, durability, lore and contents are; the same
\* holds for an item with no type nested in the contents of the item.
C19_MissingTypeOnly ==
    val.done =>
        /\ val.item.typeId = "" => val.errors = <<"missing_type">>
        /\ \A i \in 1..Len(val.item.shulker) :
              LET nested == val.item.shulker[i]
              IN  (nested # Null /\ nested.kind = "item" /\ nested.typeId = "") =>
                      ValidateItem(nested, val.server) = <<"missing_type">>

\* An item with no type that also breaks the amount rule was validated.
C19_Witness ==
    /\ val.done
    /\ val.item.typeId = ""
    /\ val.item.amount <= 0
    /\ val.errors = <<"missing_type">>


\* ---- C20 ----
CountKind(errors, kind) == Cardinality({i \in 1..Len(errors) : errors[i] = kind})
EnchantmentKinds ==
    {"invalid_enchantment", "unknown_enchantment", "invalid_enchantment_level",
     "duplicate_enchantment", "incompatible_enchantments"}

\* The enchantments that name an id again: one for every repetition.
Repetitions(es, among) ==
    {j \in among : \E i \in among : i < j /\ es[i].type = es[j].type}

\* C20 as claimed: on an item with a type, an id outside the known table
\* yields unknown_enchantment, a level <= 0 or above the maximum of the id
\* yields invalid_enchantment_level, every repetition of an id yields one
\* duplicate_enchantment, two mutually exclusive ids yield
\* incompatible_enchantments, and a list with none of these defects yields
\* no enchantment error.
C20_EnchantmentRules ==
    (val.done /\ val.item.typeId # "") =>
        LET es == val.item.enchantments
            named == {i \in 1..Len(es) : es[i].hasType}
            unknown == \E i \in named : ~KnownEnchant(es[i])
            badLevel == \E i \in 1..Len(es) :
                           es[i].levelOk
                           /\ (es[i].level <= 0
                               \/ (es[i].hasType /\ KnownEnchant(es[i]) /\ ~LevelInRange(es[i])))
            exclusive == \E i, j \in named : i # j /\ Exclusive(es[i].type, es[j].type)
        IN  /\ unknown => "unknown_enchantment" \in Kinds(val.errors)
            /\ badLevel => "invalid_enchantment_level" \in Kinds(val.errors)
            /\ CountKind(val.errors, "duplicate_enchantment")
                   = Cardinality(Repetitions(es, named))
            /\ exclusive => "incompatible_enchantments" \in Kinds(val.errors)
            /\ (~unknown /\ ~badLevel /\ Repetitions(es, named) = {} /\ ~exclusive) =>
                   Kinds(val.errors) \cap EnchantmentKinds = {}

\* C20 (amended): an enchantment without a string id or a numeric level
\* yields invalid_enchantment and a well-formed one with an id outside the
\* known table yields unknown_enchantment, one error each, and neither is
\* judged further. Among the well-formed enchantments with a known id, every
\* level <= 0 or above the maximum yields invalid_enchantment_level, every
\* repetition of an id yields duplicate_enchantment, and
\* incompatible_enchantments is reported exactly when two of them exclude
\* each other. A list with none of these defects yields no enchantment error.
C20_EnchantmentRulesJudged ==
    (val.done /\ val.item.typeId # "") =>
        LET es == val.item.enchantments
            all == 1..Len(es)
            judged == {i \in all : WellFormedEnchant(es[i]) /\ KnownEnchant(es[i])}
        IN  /\ CountKind(val.errors, "invalid_enchantment")
                   = Cardinality({i \in all : ~WellFormedEnchant(es[i])})
            /\ CountKind(val.errors, "unknown_enchantment")
                   = Cardinality({i \in all : WellFormedEnchant(es[i]) /\ ~KnownEnchant(es[i])})
            /\ CountKind(val.errors, "invalid_enchantment_level")
                   = Cardinality({i \in judged : ~LevelInRange(es[i])})
            /\ CountKind(val.errors, "duplicate_enchantment")
                   = Cardinality(Repetitions(es, judged))
            /\ "incompatible_enchantments" \in Kinds(val.errors)
                   <=> \E i, j \in judged : i # j /\ Exclusive(es[i].type, es[j].type)

\* A list of three enchantments was validated in which an unknown id stands
\* beside a known id that is repeated.
C20_Witness ==
    /\ val.done
    /\ val.item.typeId # ""
    /\ Len(val.item.enchantments) = 3
    /\ "unknown_enchantment" \in Kinds(val.errors)
    /\ "duplicate_enchantment" \in Kinds(val.errors)


\* ---- C21 ----
\* The damage the durability rules compare: 0 when the key is absent.
DamageOf(d) == IF d.hasDamage THEN d.damage ELSE 0

\* C21 as claimed: when an item with a type has a durability block, a damage
\* below 0 yields negative_durability, a damage above the supplied
\* maxDurability yields durability_exceeds_max, a supplied maxDurability that
\* differs from the canonical value of the type yields
\* invalid_max_durability, and a type without a canonical value never yields
\* invalid_max_durability.
C21_DurabilityRules ==
    (val.done /\ val.item.typeId # "" /\ val.item.durability.present) =>
        LET d == val.item.durability
            canonical == defaultMaxDurability(val.item.typeId)
            kinds == Kinds(val.errors)
        IN  /\ (d.hasDamage /\ d.damageOk /\ d.damage < 0) => "negative_durability" \in kinds
            /\ (d.hasMax /\ d.maxOk /\ d.damageOk /\ DamageOf(d) > d.max) =>
                   "durability_exceeds_max" \in kinds
            /\ (d.hasMax /\ d.maxOk /\ canonical > 0 /\ d.max # canonical) =>
                   "invalid_max_durability" \in kinds
            /\ canonical = 0 => "invalid_max_durability" \notin kinds

\* C21 (amended): the three rules hold when every value the durability block
\* supplies is a number, and each error is returned only for its rule; a
\* value that is no number yields invalid_durability alone.
C21_DurabilityRulesNumeric ==
    (val.done /\ val.item.typeId # "" /\ val.item.durability.present) =>
        LET d == val.item.durability
            canonical == defaultMaxDurability(val.item.typeId)
            kinds == Kinds(val.errors)
            numeric == (d.hasDamage => d.damageOk) /\ (d.hasMax => d.maxOk)
        IN  /\ numeric =>
                  /\ "invalid_durability" \notin kinds
                  /\ "negative_durability" \in kinds <=> DamageOf(d) < 0
                  /\ "durability_exceeds_max" \in kinds <=> (d.hasMax /\ DamageOf(d) > d.max)
                  /\ "invalid_max_durability" \in kinds
                        <=> (d.hasMax /\ canonical > 0 /\ d.max # canonical)
            /\ ~numeric =>
                  /\ "invalid_durability" \in kinds
                  /\ kinds \cap {"negative_durability", "durability_exceeds_max",
                                 "invalid_max_durability"} = {}

\* A sword was validated whose damage is negative and whose maxDurability is
\* a number other than the canonical one.
C21_Witness ==
    /\ val.done
    /\ val.item.typeId = Sword
    /\ val.item.durability.damage < 0
    /\ val.item.durability.maxOk
    /\ val.item.durability.max # defaultMaxDurability(Sword)
    /\ {"negative_durability", "invalid_max_durability"} \subseteq Kinds(val.errors)


\* ---- C22 ----
\* The contents of a container, under either spelling of the key.
ContainerContents(item) ==
    IF "shulkerContents" \in DOMAIN item THEN item.shulker \o item.shulkerContents
    ELSE item.shulker

\* The content reached from an item by a slot path (slot numbers from 0);
\* Null where the path leads nowhere or through an item without type, whose
\* contents no caller asked to be validated.
RECURSIVE ContentAt(_, _)
ContentAt(item, path) ==
    IF path = <<>> THEN item
    ELSE IF item.kind # "item" \/ item.typeId = "" \/ path[1] + 1 > Len(ContainerContents(item))
    THEN Null
    ELSE ContentAt(ContainerContents(item)[path[1] + 1], Tail(path))

\* The slot paths of up to three steps through containers of MaxSlots slots.
SlotPaths ==
    UNION {[1..n -> 0..(MaxSlots - 1)] : n \in 1..3}

\* The kinds of the errors returned for a top-level slot under a slot path.
KindsAt(errors, index, path) ==
    LET at == SelectSeq(errors, LAMBDA e : e.ItemIndex = index /\ e.Path = path)
    IN  [k \in 1..Len(at) |-> at[k].ErrorType]

\* C22: contents are validated recursively with the same claimed server at
\* every depth. What is returned for a content under a slot path is what
\* ValidateItem returns for that content taken alone as an item for the same
\* server (one invalid_shulker_content if it is no item), and each such error
\* carries the index of the top-level slot and the slot path.
C22_NestedValidation ==
    job.pc = "done" /\ job.data.kind = "json" =>
        \A i \in 1..Len(job.data.slots) :
            LET slot == job.data.slots[i]
            IN  slot.kind = "item" =>
                    \A path \in SlotPaths :
                        LET content == ContentAt(slot, path)
                        IN  KindsAt(job.errors, i - 1, path) =
                                CASE content.kind = "null" -> <<>>
                                  [] content.kind = "junk" -> <<"invalid_shulker_content">>
                                  [] OTHER ->
                                        ValidateItem([content EXCEPT !.shulker = <<>>],
                                                     job.server)

\* A stack that is too large and of another server, inside a container inside
\* a container in slot 1 of the inventory, was reported with index 1 and
\* slot path 1, 1.
C22_Witness ==
    /\ job.pc = "done"
    /\ job.server = "s1"
    /\ Len(job.data.slots) >= 2
    /\ job.data.slots[2] = NestedBox
    /\ KindsAt(job.errors, 1, <<1, 1>>) = <<"stack_too_large", "wrong_origin">>


\* ---- C23 ----
\* The errors returned for one top-level slot, in order.
ErrorsOfSlot(errors, index) == SelectSeq(errors, LAMBDA e : e.ItemIndex = index)

\* C23: ValidateInventory treats every slot on its own. A null slot gives no
\* error, a slot that is no item object gives one error for that slot, an
\* item gives the errors ValidateItem gives for it whatever the other slots
\* hold, every error carries the given player and server, and
\* invalid_inventory is returned, alone and with index -1, only for bytes
\* that are no list.
C23_SlotsIndependent ==
    job.pc = "done" =>
        /\ \A k \in 1..Len(job.errors) :
              job.errors[k].Player = job.player /\ job.errors[k].Server = job.server
        /\ job.data.kind # "json" =>
              /\ Len(job.errors) = 1
              /\ job.errors[1].ErrorType = "invalid_inventory"
              /\ job.errors[1].ItemIndex = 0 - 1
        /\ job.data.kind = "json" =>
              /\ \A k \in 1..Len(job.errors) :
                    /\ job.errors[k].ErrorType # "invalid_inventory"
                    /\ job.errors[k].ItemIndex \in 0..(Len(job.data.slots) - 1)
              /\ \A i \in 1..Len(job.data.slots) :
                    LET slot == job.data.slots[i]
                        reported == ErrorsOfSlot(job.errors, i - 1)
                    IN  CASE slot.kind = "null" -> reported = <<>>
                          [] slot.kind = "junk" ->
                                /\ Len(reported) = 1
                                /\ reported[1].ErrorType = "unparseable_item"
                          [] OTHER ->
                                [k \in 1..Len(reported) |-> reported[k].ErrorType]
                                    = ValidateItem(slot, job.server)

\* An inventory was validated whose first slot is no item object, whose
\* second is null and whose third is an illegal item, reported with index 2.
C23_Witness ==
    /\ job.pc = "done"
    /\ job.data.kind = "json"
    /\ Len(job.data.slots) = 3
    /\ job.data.slots[1] = Junk
    /\ job.data.slots[2] = Null
    /\ job.data.slots[3] = IllegalDiamonds
    /\ Len(ErrorsOfSlot(job.errors, 0)) = 1
    /\ Len(ErrorsOfSlot(job.errors, 2)) = 2


\* ---- C24 ----
\* The slots with every item, at any depth, that has an origin line naming
\* the server replaced by null, and every other slot where it was.
RECURSIVE NulledSlots(_, _)
NulledSlots(slots, server) ==
    [i \in 1..Len(slots) |->
        IF slots[i].kind # "item" THEN slots[i]
        ELSE IF NamesOrigin(slots[i], server) THEN Null
        ELSE [slots[i] EXCEPT !.shulker = NulledSlots(@, server)]]

\* The slots without what they say of unknown keys.
RECURSIVE KnownFields(_)
KnownFields(slots) ==
    [i \in 1..Len(slots) |->
        IF slots[i].kind # "item" THEN slots[i]
        ELSE [slots[i] EXCEPT !.extra = FALSE, !.shulker = KnownFields(@)]]

\* C24: cleaning an inventory against a server nulls exactly the slots, at
\* any nesting depth, whose item has an origin of that server; every other
\* slot keeps its content and its position.
C24_CascadeDepth ==
    job.pc = "done" /\ job.data.kind = "json" =>
        KnownFields(job.out.slots) = KnownFields(NulledSlots(job.data.slots, job.server))


\* ---- C25 ----
\* How many items the slots hold, at any depth.
RECURSIVE CountItems(_)
CountItems(slots) ==
    IF slots = <<>> THEN 0
    ELSE (IF Head(slots).kind = "item" THEN 1 + CountItems(Head(slots).shulker) ELSE 0)
         + CountItems(Tail(slots))

\* C25: the cleaner returns changed = false and its input when no item at any
\* depth has an origin of the server, returns changed = true only when it
\* removed an item, passes a top-level slot that is no item object through
\* where it was, and cleans every other slot as it cleans that slot alone.
C25_CleanerFrame ==
    job.pc = "done" =>
        /\ (job.data.kind # "json" \/ ~HoldsOriginItem(job.data.slots, job.server)) =>
              ~job.modified /\ job.out = job.data
        /\ ~job.modified => job.out = job.data
        /\ job.modified =>
              /\ HoldsOriginItem(job.data.slots, job.server)
              /\ CountItems(job.out.slots) < CountItems(job.data.slots)
        /\ job.data.kind = "json" =>
              /\ Len(job.out.slots) = Len(job.data.slots)
              /\ \A i \in 1..Len(job.data.slots) :
                    /\ job.data.slots[i].kind = "junk" => job.out.slots[i] = Junk
                    /\ job.modified =>
                           job.out.slots[i]
                               = CleanInventoryLoop(<<job.data.slots[i]>>, job.server).cleaned[1]

\* An inventory whose first slot is no item object and whose second holds an
\* item of the server was cleaned: the first slot is as it was and the item
\* is gone.
C25_Witness ==
    /\ job.pc = "done"
    /\ job.modified
    /\ Len(job.data.slots) >= 2
    /\ job.data.slots[1] = Junk
    /\ job.data.slots[2] = SwordOf(job.server)
    /\ job.out.slots[1] = Junk
    /\ job.out.slots[2] = Null


\* ---- C26 ----
\* C26: where the value stored under a player key is a bare inventory array,
\* Get on the open store returns these bytes, and no Put and no Delete
\* changes the value, so this holds after any sequence of calls.
C26_LegacyRead ==
    /\ [](\A p \in Players :
            (store[p].kind = "legacy" /\ ~closed) =>
                GetResult(p) = Result("Get", p, ErrNone, BytesVal(store[p].inv)))
    /\ [][\A p \in Players : store[p].kind = "legacy" => store'[p] = store[p]]_vars

\* Get returned without error on a store that holds a bare inventory array
\* under p2, after a Put was logged and a Delete scanned the store.
C26_Witness ==
    /\ store["p2"] = Legacy(InvStamped)
    /\ store["p1"].kind = "none"
    /\ changeLog # <<>>
    /\ deletes >= 1
    /\ res = Returned(Result("Get", "p2", ErrNone, NoVal))



\* ---- C27 ----
\* C27: an item object decoded into Item and encoded again is the object it
\* was, unknown keys included, and an item that survives a cleaning pass is
\* written back in its slot with its type, its lore and its unknown keys.
C27_CodecRoundTrip ==
    job.pc = "done" /\ job.data.kind = "json" =>
        \A i \in 1..Len(job.data.slots) :
            (job.data.slots[i].kind = "item" /\ job.out.slots[i] # Null) =>
                /\ MarshalJSON(UnmarshalJSON(job.data.slots[i])) = job.data.slots[i]
                /\ job.out.slots[i].typeId = job.data.slots[i].typeId
                /\ job.out.slots[i].lore = job.data.slots[i].lore
                /\ job.out.slots[i].extra = job.data.slots[i].extra


\* ---- C28 ----
\* C28: on an open store whose engine does not fail, Put returns ok whatever
\* is stored under the player: nothing, a record, or a bare inventory array.
\* (No value of the store is bytes that are no JSON.)
C28_PutLoadsAny ==
    (res.op = "Put" /\ \A p \in Players : store[p].kind # "corrupt") =>
        res.err \in {ErrNone, ErrClosed, ErrEngine}


\* ---- C29 ----
\* C29: when Delete's scan passes a player, it appends one deleted = true
\* change-log entry naming the player and the server if it changed what is
\* stored under the player (entries dropped, an inventory cleaned, or the key
\* removed), and it appends nothing and writes nothing otherwise; what is
\* stored under the other players stays as it is.
C29_DeleteLogsChanges ==
    [][(del.pc = "scan" /\ del.iter # <<>> /\ del'.iter = Tail(del.iter)) =>
          LET player == Head(del.iter)
          IN  /\ \A p \in Players \ {player} : store'[p] = store[p]
              /\ IF store'[player] # store[player]
                 THEN /\ Len(changeLog') = Len(changeLog) + 1
                      /\ SubSeq(changeLog', 1, Len(changeLog)) = changeLog
                      /\ changeLog'[Len(changeLog')].deleted
                      /\ changeLog'[Len(changeLog')].player = player
                      /\ changeLog'[Len(changeLog')].entry.server = del.server
                 ELSE changeLog' = changeLog]_vars

\* The scan has just logged a player whose record it changed by cleaning an
\* inventory: no entry of that player was ever dropped.
C29_Witness ==
    /\ del.pc = "scan"
    /\ changeLog # <<>>
    /\ LET last == changeLog[Len(changeLog)]
       IN  /\ last.deleted
           /\ store[last.player].kind = "record"
           /\ removed[last.player] = 0


\* ---- C30 ----
\* C30: when Delete's scan comes to a value that does not decode as a player
\* record it leaves the store and the change log as they are and goes on to
\* the next key; when the scan ends, Delete returns ok, every such value is
\* what it was when the scan began, and no record holds an entry of the
\* deleted server.
C30_CorruptSkipped ==
    [][/\ (/\ del.pc = "scan" /\ del.iter # <<>> /\ del'.pc = "scan"
           /\ store[Head(del.iter)].kind \in {"legacy", "corrupt"}) =>
              /\ store' = store
              /\ changeLog' = changeLog
              /\ del'.iter = Tail(del.iter)
       /\ (del.pc = "scan" /\ del.iter = <<>> /\ del'.pc = "idle") =>
              /\ res' = Returned(Result("Delete", "", ErrNone, NoVal))
              /\ \A p \in Players :
                    /\ del.snap[p].kind \in {"legacy", "corrupt"} => store'[p] = del.snap[p]
                    /\ store'[p].kind = "record" =>
                          \A i \in 1..Len(store'[p].entries) :
                              store'[p].entries[i].server # del.server]_vars

\* Delete has returned ok on a store whose first key holds bytes that are no
\* JSON, after dropping an entry of the player whose key comes next.
C30_Witness ==
    /\ res = Returned(Result("Delete", "", ErrNone, NoVal))
    /\ del.pc = "idle"
    /\ store["p1"] = Corrupt
    /\ removed["p2"] >= 1


\* ---- C31 ----
\* `after` is `before` with some top-level items replaced by null: the same
\* number of slots, every slot either the item it was (type and lore), or
\* null where an item was, or what it was when it held no item.
SlotsKeptOrNulled(before, after) ==
    /\ before.kind = "json" /\ after.kind = "json"
    /\ Len(after.slots) = Len(before.slots)
    /\ \A i \in 1..Len(before.slots) :
          IF before.slots[i].kind # "item" THEN after.slots[i] = before.slots[i]
          ELSE \/ after.slots[i] = Null
               \/ /\ after.slots[i].kind = "item"
                  /\ after.slots[i].typeId = before.slots[i].typeId
                  /\ after.slots[i].lore = before.slots[i].lore

\* C31: every entry a Delete that returns ok leaves in a record is an entry
\* the record held, with the same server and timestamp, and with either the
\* same inventory or that inventory with as many top-level slots, each
\* removed item replaced by null.
C31_CleanedEntryKeepsStamp ==
    [][(ScanDone /\ del'.pc = "idle" /\ res'.err = ErrNone) =>
         \A p \in Players :
            LET pre == del.snap[p].entries
                post == store'[p].entries
            IN  \A j \in 1..Len(post) :
                   \E i \in 1..Len(pre) :
                      /\ post[j].server = pre[i].server
                      /\ post[j].timestamp = pre[i].timestamp
                      /\ \/ post[j].inventory = pre[i].inventory
                         \/ SlotsKeptOrNulled(pre[i].inventory, post[j].inventory)]_vars

\* A Delete has scanned a record and kept an entry of another server whose
\* inventory it cleaned: the first slot held an item and is now null.
C31_Witness ==
    /\ ScanDone
    /\ \E p \in Players :
          LET pre == del.snap[p].entries
              post == store[p].entries
          IN  \E i \in 1..Len(pre), j \in 1..Len(post) :
                 /\ pre[i].server # del.server
                 /\ post[j].server = pre[i].server
                 /\ post[j].timestamp = pre[i].timestamp
                 /\ pre[i].inventory.kind = "json"
                 /\ pre[i].inventory.slots[1].kind = "item"
                 /\ post[j].inventory.kind = "json"
                 /\ post[j].inventory.slots[1] = Null
                 /\ Len(post[j].inventory.slots) = Len(pre[i].inventory.slots)


\* ---- C32 ----
\* C32: an item the validator takes as originating from the server
\* (validateOrigin reports nothing and HasOriginFromServer is true) is taken
\* so by the cleaner's test too, and cleaning for that server removes it.
C32_OriginTestsAgree ==
    job.pc = "done" /\ job.data.kind = "json" =>
        \A i \in 1..Len(job.data.slots) :
            (/\ job.data.slots[i].kind = "item"
             /\ validateOrigin(job.data.slots[i].lore, job.server) = <<>>
             /\ HasOriginFromServer(job.data.slots[i], job.server)) =>
                /\ hasOriginFromServer(job.data.slots[i], job.server)
                /\ job.out.slots[i] = Null


\* ---- C33 ----
\* C33: the store state the stream's snapshot phase reads is never one in the
\* middle of a Delete: it does not hold the deletion applied to one player's
\* record while another player's record still has an entry of that server.
C33_SnapshotBetweenOperations ==
    [][(stream.pc = "snapshot" /\ stream'.pc = "iter" /\ del.pc = "scan") =>
         ~(/\ \E p \in Players : stream'.snap[p] # del.snap[p]
           /\ \E q \in Players :
                 \E i \in 1..Len(stream'.snap[q].entries) :
                    stream'.snap[q].entries[i].server = del.server)]_vars


\* ---- C34 ----
\* C34: a Delete called again with the same server and force right after the
\* first call returned ok writes no record, appends nothing to the change
\* log, and returns ok.
C34_DeleteIdempotent ==
    [][job.pc = "second" =>
         /\ store' = store
         /\ changeLog' = changeLog
         /\ job'.pc = "done" => res' = Returned(Result("Delete", "", ErrNone, NoVal))]_vars

\* The second of two forced Deletes has returned, and the first had changed
\* a record that is still there.
C34_Witness ==
    /\ job.pc = "done"
    /\ job.force
    /\ res = Returned(Result("Delete", "", ErrNone, NoVal))
    /\ \E p \in Players : store[p].kind = "record" /\ store[p] # job.before[p]


\* ---- C35 ----
\* C35: a Put that returns an error (closed store, engine failure, or an
\* existing value that does not decode) leaves every stored value and the
\* change log as they were before the call.
C35_FailedPutChangesNothing ==
    [][(LockFree /\ res'.op = "Put" /\ res'.err # ErrNone) =>
         /\ store' = store
         /\ changeLog' = changeLog]_vars

\* A Put has failed in the engine on a store that holds a record, with
\* changes in the log.
C35_Witness ==
    /\ res = Returned(Result("Put", "p1", ErrEngine, NoVal))
    /\ \E p \in Players : store[p].kind = "record"
    /\ changeLog # <<>>


\* ---- C36 ----
\* C36: after DeleteWithInventoryCleanup(S, force) returns ok, no entry of
\* any player's history holds, at any depth, an item with an origin line
\* naming S, and no player has more entries than before the call.
C36_CleanupAllEntries ==
    job.pc = "done" =>
        \A p \in Players :
            /\ \A i \in 1..Len(store[p].entries) :
                  ~HoldsOriginItem(store[p].entries[i].inventory.slots, job.server)
            /\ Len(store[p].entries) <= Len(job.before[p].entries)


====
